---- MODULE Spec2Model ----
(***************************************************************************)
(* Scheduler plugins ex-priority, time-priority and group-quota, and the   *)
(* priority-selector engine they share.  A session is opened by the host,  *)
(* each plugin's OnSessionOpen runs, the host then invokes the registered   *)
(* callbacks, and the session is closed.                                    *)
(*                                                                         *)
(* Instants and durations are counted in milliseconds; the zero time.Time   *)
(* (and a nil *metav1.Time) is 0 and every real instant is greater than 0.  *)
(* A duration string is the sequence of its characters.                     *)
(***************************************************************************)
EXTENDS Integers, Sequences, FiniteSets, TLC

VARIABLES
    config,     \* exPriorityPlugin.config (Config)
    rules,      \* timePriorityPlugin.config.Rules
    ssnJobs,    \* ssn.Jobs : JobID -> JobInfo
    now,        \* the wall clock read by time.Now()
    pc,         \* session lifecycle: "closed", "opening", "running", and
                \* "panicked" once a panic has left an OnSessionOpen
    plugins,    \* the plugins the scheduler configuration enables
    opened,     \* plugins whose OnSessionOpen has returned in this session
    fns,        \* callbacks registered in the session: <<plugin, hook>>
    snapshot,   \* the jobs as the host handed them to this session's open
    ret,        \* what the last callback invocation returned
    openedAt,   \* the clock time-priority read in this session's open, 0 before
    closedSessions, \* the sessions the host has closed, oldest first
    groupquota, \* group-quota: its arguments and what its OnSessionOpen computed
    openOrder   \* the plugins of opened, in the order their OnSessionOpen returned

vars == <<config, rules, ssnJobs, now, pc, plugins, opened, fns, snapshot, ret,
          openedAt, closedSessions, groupquota, openOrder>>

----------------------------------------------------------------------------
(* Bounds of the model *)

NumJobs == 2
NumQueues == 2
MaxPriority == 1
MaxTaskPriority == 1
MaxNow == 3
MaxCandidates == 2
MaxRules == 2
LongRules == 14
MaxSessions == 2
MaxValues == 2
MaxExpressions == 2
MaxTasks == 2
NumLiveJobs == 3

JobIDs == 1..NumJobs
LiveJobIDs == 1..NumLiveJobs
Queues == 1..NumQueues
Priorities == 0..MaxPriority
TaskPriorities == 0..MaxTaskPriority

----------------------------------------------------------------------------
(* Priority-selector engine *)

OperatorIn == "In"
OperatorNotIn == "NotIn"
OperatorBetween == "Between"
OperatorLt == "Lt"
OperatorGt == "Gt"
OperatorLte == "Lte"
OperatorGte == "Gte"

PriorityExpression(op, values) == [Operator |-> op, Values |-> values]

\* slices.Contains
Contains(values, v) == \E i \in 1..Len(values) : values[i] = v

\* Matches that takes the first value of Between for the lower bound and the
\* second for the upper bound, whatever their order
PriorityExpressionMatchesUnnormalised(expr, priority) ==
    CASE expr.Operator = OperatorIn -> Contains(expr.Values, priority)
      [] expr.Operator = OperatorNotIn -> ~Contains(expr.Values, priority)
      [] expr.Operator = OperatorBetween ->
            IF Len(expr.Values) >= 2
            THEN priority >= expr.Values[1] /\ priority <= expr.Values[2]
            ELSE FALSE
      [] expr.Operator = OperatorLt ->
            Len(expr.Values) > 0 /\ priority < expr.Values[1]
      [] expr.Operator = OperatorGt ->
            Len(expr.Values) > 0 /\ priority > expr.Values[1]
      [] expr.Operator = OperatorLte ->
            Len(expr.Values) > 0 /\ priority <= expr.Values[1]
      [] expr.Operator = OperatorGte ->
            Len(expr.Values) > 0 /\ priority >= expr.Values[1]
      [] OTHER -> FALSE

\* Matches that compares the priority with the last value of Lt, Gt, Lte and Gte
PriorityExpressionMatchesLastValue(expr, priority) ==
    CASE expr.Operator = OperatorIn -> Contains(expr.Values, priority)
      [] expr.Operator = OperatorNotIn -> ~Contains(expr.Values, priority)
      [] expr.Operator = OperatorBetween ->
            IF Len(expr.Values) >= 2
            THEN LET lo == IF expr.Values[1] > expr.Values[2]
                           THEN expr.Values[2] ELSE expr.Values[1]
                     hi == IF expr.Values[1] > expr.Values[2]
                           THEN expr.Values[1] ELSE expr.Values[2]
                 IN priority >= lo /\ priority <= hi
            ELSE FALSE
      [] expr.Operator = OperatorLt ->
            Len(expr.Values) > 0 /\ priority < expr.Values[Len(expr.Values)]
      [] expr.Operator = OperatorGt ->
            Len(expr.Values) > 0 /\ priority > expr.Values[Len(expr.Values)]
      [] expr.Operator = OperatorLte ->
            Len(expr.Values) > 0 /\ priority <= expr.Values[Len(expr.Values)]
      [] expr.Operator = OperatorGte ->
            Len(expr.Values) > 0 /\ priority >= expr.Values[Len(expr.Values)]
      [] OTHER -> FALSE

\* (*PriorityExpression).Matches
PriorityExpressionMatches(expr, priority) ==
    CASE expr.Operator = OperatorIn -> Contains(expr.Values, priority)
      [] expr.Operator = OperatorNotIn -> ~Contains(expr.Values, priority)
      [] expr.Operator = OperatorBetween ->
            IF Len(expr.Values) >= 2
            THEN LET lo == IF expr.Values[1] > expr.Values[2]
                           THEN expr.Values[2] ELSE expr.Values[1]
                     hi == IF expr.Values[1] > expr.Values[2]
                           THEN expr.Values[1] ELSE expr.Values[2]
                 IN priority >= lo /\ priority <= hi
            ELSE FALSE
      [] expr.Operator = OperatorLt ->
            Len(expr.Values) > 0 /\ priority < expr.Values[1]
      [] expr.Operator = OperatorGt ->
            Len(expr.Values) > 0 /\ priority > expr.Values[1]
      [] expr.Operator = OperatorLte ->
            Len(expr.Values) > 0 /\ priority <= expr.Values[1]
      [] expr.Operator = OperatorGte ->
            Len(expr.Values) > 0 /\ priority >= expr.Values[1]
      [] OTHER -> FALSE

\* A *PrioritySelector: the nil pointer, or a selector with its expressions
NilSelector == [isNil |-> TRUE, AnyExpressions |-> <<>>]
PrioritySelector(exprs) == [isNil |-> FALSE, AnyExpressions |-> exprs]

\* Matches that takes a selector without expressions to match every priority
PrioritySelectorMatchesEmptyAll(sel, priority) ==
    IF sel.isNil THEN FALSE
    ELSE IF Len(sel.AnyExpressions) = 0 THEN TRUE
    ELSE \E i \in 1..Len(sel.AnyExpressions) :
            PriorityExpressionMatches(sel.AnyExpressions[i], priority)

\* Matches that asks the first expression of the selector only
PrioritySelectorMatchesFirstOnly(sel, priority) ==
    IF sel.isNil \/ Len(sel.AnyExpressions) = 0
    THEN FALSE
    ELSE PriorityExpressionMatches(sel.AnyExpressions[1], priority)

\* (*PrioritySelector).Matches
PrioritySelectorMatches(sel, priority) ==
    IF sel.isNil \/ Len(sel.AnyExpressions) = 0
    THEN FALSE
    ELSE \E i \in 1..Len(sel.AnyExpressions) :
            PriorityExpressionMatches(sel.AnyExpressions[i], priority)

----------------------------------------------------------------------------
(* Jobs and the session *)

\* api.JobInfo, the attributes the plugins read
JobInfo(uid, queue, priority, pending, created) ==
    [UID |-> uid, Queue |-> queue, Priority |-> priority,
     Pending |-> pending, CreationTimestamp |-> created]

\* (*JobInfo).IsPending
IsPending(job) == job.Pending

\* Every order in which "for _, job := range ssn.Jobs" can visit the jobs
RangeOrders(jobs) ==
    {o \in [1..Cardinality(DOMAIN jobs) -> DOMAIN jobs] :
        \A i, j \in DOMAIN o : i # j => o[i] # o[j]}

NoReturn == [fn |-> "none"]

----------------------------------------------------------------------------
(* ex-priority: configuration *)

ExPriority == "ex-priority"
TimePriority == "time-priority"

SortByPriority == "priority"
SortByCreationTime == "creationTime"
BlockingScopeCluster == "cluster"
BlockingScopeQueue == "queue"

\* An entry of framework.Arguments: present with a value, or absent
Given(v) == [ok |-> TRUE, val |-> v]
NotGiven(zero) == [ok |-> FALSE, val |-> zero]

\* New: the Config before parseArguments runs
DefaultConfig ==
    [SortOrder |-> <<SortByPriority>>,
     Preemptible |-> NilSelector,
     Reclaimable |-> NilSelector,
     Blocking |-> NilSelector,
     BlockingScope |-> "",
     MaxRunTimeAnnotationKey |-> ""]

\* parseArguments that keeps the blocking scope it is given, whatever it is
ExPriorityParseArgumentsScopeAsGiven(args) ==
    [SortOrder |-> IF args.sortOrder.ok THEN args.sortOrder.val
                   ELSE DefaultConfig.SortOrder,
     Preemptible |-> IF args.preemptible.ok THEN args.preemptible.val
                     ELSE DefaultConfig.Preemptible,
     Reclaimable |-> IF args.reclaimable.ok THEN args.reclaimable.val
                     ELSE DefaultConfig.Reclaimable,
     Blocking |-> IF args.blocking.ok THEN args.blocking.val
                  ELSE DefaultConfig.Blocking,
     BlockingScope |->
        IF args.blockingScope.ok
        THEN args.blockingScope.val
        ELSE BlockingScopeQueue,
     MaxRunTimeAnnotationKey |->
        IF args.maxRunTimeAnnotationKey.ok
        THEN args.maxRunTimeAnnotationKey.val
        ELSE DefaultConfig.MaxRunTimeAnnotationKey]

\* (*exPriorityPlugin).parseArguments
ExPriorityParseArguments(args) ==
    [SortOrder |-> IF args.sortOrder.ok THEN args.sortOrder.val
                   ELSE DefaultConfig.SortOrder,
     Preemptible |-> IF args.preemptible.ok THEN args.preemptible.val
                     ELSE DefaultConfig.Preemptible,
     Reclaimable |-> IF args.reclaimable.ok THEN args.reclaimable.val
                     ELSE DefaultConfig.Reclaimable,
     Blocking |-> IF args.blocking.ok THEN args.blocking.val
                  ELSE DefaultConfig.Blocking,
     BlockingScope |->
        IF args.blockingScope.ok
           /\ (args.blockingScope.val = BlockingScopeCluster
               \/ args.blockingScope.val = BlockingScopeQueue)
        THEN args.blockingScope.val
        ELSE BlockingScopeQueue,
     MaxRunTimeAnnotationKey |->
        IF args.maxRunTimeAnnotationKey.ok
        THEN args.maxRunTimeAnnotationKey.val
        ELSE DefaultConfig.MaxRunTimeAnnotationKey]

----------------------------------------------------------------------------
(* ex-priority: head-of-line blocking *)

Permit == "Permit"
Abstain == "Abstain"
Reject == "Reject"

\* The loop body that skips other queues whatever the scope is
BlockingJobAheadSkipsScope(cfg, job, currentJob) ==
    /\ IsPending(job)
    /\ job.UID # currentJob.UID
    /\ ~(job.Queue # currentJob.Queue)
    /\ PrioritySelectorMatches(cfg.Blocking, job.Priority)
    /\ job.Priority > currentJob.Priority

\* The loop body that does not skip the jobs that are no longer pending
BlockingJobAheadIgnoresPending(cfg, job, currentJob) ==
    /\ job.UID # currentJob.UID
    /\ ~(cfg.BlockingScope = BlockingScopeQueue /\ job.Queue # currentJob.Queue)
    /\ PrioritySelectorMatches(cfg.Blocking, job.Priority)
    /\ job.Priority > currentJob.Priority

\* The loop body that takes the jobs of lower priority to block
BlockingJobAheadOfHigher(cfg, job, currentJob) ==
    /\ IsPending(job)
    /\ job.UID # currentJob.UID
    /\ ~(cfg.BlockingScope = BlockingScopeQueue /\ job.Queue # currentJob.Queue)
    /\ PrioritySelectorMatches(cfg.Blocking, job.Priority)
    /\ job.Priority < currentJob.Priority

\* One iteration of the loop of hasBlockingJobAhead: does job block currentJob
IsBlockingJobAhead(cfg, job, currentJob) ==
    /\ IsPending(job)
    /\ job.UID # currentJob.UID
    /\ ~(cfg.BlockingScope = BlockingScopeQueue /\ job.Queue # currentJob.Queue)
    /\ PrioritySelectorMatches(cfg.Blocking, job.Priority)
    /\ job.Priority > currentJob.Priority

\* The loop of hasBlockingJobAhead that ends at the first pending job of another
\* queue instead of going on to the next job
RECURSIVE BlockingLoopEndsAtOtherQueue(_, _, _, _, _)
BlockingLoopEndsAtOtherQueue(cfg, jobs, order, i, currentJob) ==
    IF i > Len(order) THEN FALSE
    ELSE IF /\ IsPending(jobs[order[i]])
            /\ jobs[order[i]].UID # currentJob.UID
            /\ cfg.BlockingScope = BlockingScopeQueue
            /\ jobs[order[i]].Queue # currentJob.Queue
    THEN FALSE
    ELSE IF IsBlockingJobAhead(cfg, jobs[order[i]], currentJob) THEN TRUE
    ELSE BlockingLoopEndsAtOtherQueue(cfg, jobs, order, i + 1, currentJob)

\* The loop of hasBlockingJobAhead over the jobs in the order the range yields
RECURSIVE BlockingLoop(_, _, _, _, _)
BlockingLoop(cfg, jobs, order, i, currentJob) ==
    IF i > Len(order) THEN FALSE
    ELSE IF IsBlockingJobAhead(cfg, jobs[order[i]], currentJob) THEN TRUE
    ELSE BlockingLoop(cfg, jobs, order, i + 1, currentJob)

\* hasBlockingJobAhead that returns after the first job the range yields
hasBlockingJobAheadFirstOnly(cfg, jobs, order, currentJob) ==
    IF cfg.Blocking.isNil \/ Len(order) = 0 THEN FALSE
    ELSE IsBlockingJobAhead(cfg, jobs[order[1]], currentJob)

\* (*exPriorityPlugin).hasBlockingJobAhead
hasBlockingJobAhead(cfg, jobs, order, currentJob) ==
    IF cfg.Blocking.isNil THEN FALSE
    ELSE BlockingLoop(cfg, jobs, order, 1, currentJob)

\* jobEnqueueableFn, registered by OnSessionOpen when Blocking is configured
jobEnqueueableFn(cfg, jobs, order, job) ==
    IF PrioritySelectorMatches(cfg.Blocking, job.Priority) THEN Permit
    ELSE IF hasBlockingJobAhead(cfg, jobs, order, job) THEN Reject
    ELSE Abstain

\* *api.ValidateResult: nil, or a result
NilValidateResult == [isNil |-> TRUE, Pass |-> TRUE, Reason |-> "", Message |-> <<>>]
ValidateResult(pass, reason, message) ==
    [isNil |-> FALSE, Pass |-> pass, Reason |-> reason, Message |-> message]

\* jobValidFn that also fails the blocking-priority jobs
jobValidFnNoExemption(cfg, jobs, order, job) ==
    IF hasBlockingJobAhead(cfg, jobs, order, job)
    THEN ValidateResult(FALSE, "blocked by higher priority job",
            <<"head-of-line blocking: higher priority job is pending (scope: %s)",
              cfg.BlockingScope>>)
    ELSE NilValidateResult

\* jobValidFn, registered by OnSessionOpen when Blocking is configured
jobValidFn(cfg, jobs, order, job) ==
    IF PrioritySelectorMatches(cfg.Blocking, job.Priority) THEN NilValidateResult
    ELSE IF hasBlockingJobAhead(cfg, jobs, order, job)
    THEN ValidateResult(FALSE, "blocked by higher priority job",
            <<"head-of-line blocking: higher priority job is pending (scope: %s)",
              cfg.BlockingScope>>)
    ELSE NilValidateResult

----------------------------------------------------------------------------
(* ex-priority: the session *)

\* What (*exPriorityPlugin).OnSessionOpen registers
ExPriorityRegistered(cfg) ==
    {<<ExPriority, "taskOrderFn">>, <<ExPriority, "jobOrderFn">>,
     <<ExPriority, "subJobOrderFn">>, <<ExPriority, "preemptableFn">>,
     <<ExPriority, "reclaimableFn">>, <<ExPriority, "jobStarvingFn">>}
    \cup (IF ~cfg.Blocking.isNil
          THEN {<<ExPriority, "jobEnqueueableFn">>, <<ExPriority, "jobValidFn">>}
          ELSE {})

\* The host runs the actions once every enabled plugin has been opened
PcAfterOpen(done) == IF done = plugins THEN "running" ELSE "opening"

\* (*exPriorityPlugin).OnSessionOpen
ExPriorityOnSessionOpen ==
    /\ pc = "opening"
    /\ ExPriority \in plugins \ opened
    /\ fns' = fns \cup ExPriorityRegistered(config)
    /\ opened' = opened \cup {ExPriority}
    /\ openOrder' = Append(openOrder, ExPriority)
    /\ pc' = PcAfterOpen(opened')
    /\ UNCHANGED <<config, rules, ssnJobs, now, plugins, snapshot, ret, openedAt, closedSessions,
                   groupquota>>

\* The host asks a jobEnqueueableFn that answers from the jobs as they were when
\* the session was opened
CallJobEnqueueableOnSnapshot(id, order) ==
    /\ pc = "running"
    /\ ret = NoReturn
    /\ <<ExPriority, "jobEnqueueableFn">> \in fns
    /\ id \in DOMAIN ssnJobs
    /\ ret' = [fn |-> "jobEnqueueableFn", job |-> id,
               result |-> jobEnqueueableFn(config, snapshot, order, snapshot[id])]
    /\ UNCHANGED <<config, rules, ssnJobs, now, pc, plugins, opened, fns, snapshot,
                   openedAt, closedSessions, groupquota, openOrder>>

\* The host asks whether a job of the session may be enqueued
CallJobEnqueueable(id, order) ==
    /\ pc = "running"
    /\ ret = NoReturn
    /\ <<ExPriority, "jobEnqueueableFn">> \in fns
    /\ id \in DOMAIN ssnJobs
    /\ ret' = [fn |-> "jobEnqueueableFn", job |-> id,
               result |-> jobEnqueueableFn(config, ssnJobs, order, ssnJobs[id])]
    /\ UNCHANGED <<config, rules, ssnJobs, now, pc, plugins, opened, fns, snapshot, openedAt, closedSessions,
                   groupquota, openOrder>>

\* The host asks whether a job of the session is valid for allocation
CallJobValid(id, order) ==
    /\ pc = "running"
    /\ ret = NoReturn
    /\ <<ExPriority, "jobValidFn">> \in fns
    /\ id \in DOMAIN ssnJobs
    /\ ret' = [fn |-> "jobValidFn", job |-> id,
               result |-> jobValidFn(config, ssnJobs, order, ssnJobs[id])]
    /\ UNCHANGED <<config, rules, ssnJobs, now, pc, plugins, opened, fns, snapshot, openedAt, closedSessions,
                   groupquota, openOrder>>

\* The host's enqueue action moves a pending job out of the Pending phase
HostEnqueueJob(id) ==
    /\ pc = "running"
    /\ id \in DOMAIN ssnJobs
    /\ IsPending(ssnJobs[id])
    /\ ret = NoReturn
    /\ ssnJobs' = [ssnJobs EXCEPT ![id].Pending = FALSE]
    /\ UNCHANGED <<config, rules, now, pc, plugins, opened, fns, snapshot, ret, openedAt, closedSessions,
                   groupquota, openOrder>>

\* The host closes the session and opens the next one over the same jobs. The
\* jobs of the new session carry either the priorities the host handed to the
\* closed session or the priorities the closed session left on them.
HostNextSession ==
    /\ pc = "running"
    /\ ret = NoReturn
    /\ Len(closedSessions) < MaxSessions - 1
    /\ closedSessions' = Append(closedSessions,
            [before |-> snapshot, jobs |-> ssnJobs, openedAt |-> openedAt])
    /\ \E carried \in BOOLEAN : ssnJobs' = IF carried THEN ssnJobs ELSE snapshot
    /\ snapshot' = ssnJobs'
    /\ pc' = "opening"
    /\ opened' = {}
    /\ openOrder' = <<>>
    /\ fns' = {}
    /\ openedAt' = 0
    /\ UNCHANGED <<config, rules, now, plugins, ret,
                   groupquota>>

\* The host takes the result of the invocation and goes on
HostTakeResult ==
    /\ pc # "panicked"
    /\ ret # NoReturn
    /\ ret' = NoReturn
    /\ UNCHANGED <<config, rules, ssnJobs, now, pc, plugins, opened, fns, snapshot, openedAt, closedSessions,
                   groupquota, openOrder>>

----------------------------------------------------------------------------
(* Natural numbers of any size, as the sequence of their decimal digits, the most
   significant first and without leading zeros; <<>> is zero.  Durations are
   counted in nanoseconds and quantities in billionths, as time.Duration and
   resource.Quantity count them, and neither fits an integer of 32 bits. *)

IsDigit(c) == c \in {"0", "1", "2", "3", "4", "5", "6", "7", "8", "9"}

DigitValue(c) ==
    CASE c = "0" -> 0 [] c = "1" -> 1 [] c = "2" -> 2 [] c = "3" -> 3 [] c = "4" -> 4
      [] c = "5" -> 5 [] c = "6" -> 6 [] c = "7" -> 7 [] c = "8" -> 8 [] c = "9" -> 9

\* The number written by the digits ds, leading zeros allowed
NatNorm(ds) ==
    IF \A i \in 1..Len(ds) : ds[i] = 0 THEN <<>>
    ELSE SubSeq(ds, CHOOSE i \in 1..Len(ds) :
                        ds[i] # 0 /\ \A j \in 1..(i - 1) : ds[j] = 0, Len(ds))

\* The number written by a run of digit characters
NatOfDigits(s) == NatNorm([i \in 1..Len(s) |-> DigitValue(s[i])])

RECURSIVE NatFromInt(_)
NatFromInt(n) == IF n = 0 THEN <<>> ELSE Append(NatFromInt(n \div 10), n % 10)

\* Where a and b, of one length, first differ
NatCmpFrom(a, b) ==
    CHOOSE i \in 1..Len(a) : a[i] # b[i] /\ \A j \in 1..(i - 1) : a[j] = b[j]

\* -1, 0 or 1 as a is less than, equal to or greater than b
NatCmp(a, b) ==
    IF Len(a) < Len(b) THEN -1
    ELSE IF Len(a) > Len(b) THEN 1
    ELSE IF a = b THEN 0
    ELSE IF a[NatCmpFrom(a, b)] < b[NatCmpFrom(a, b)] THEN -1
    ELSE 1

NatDigitFromRight(a, k) == IF k <= Len(a) THEN a[Len(a) + 1 - k] ELSE 0

\* The digits k to k + 3 of a from the right, as a number below ten thousand:
\* the sums and products below go four digits at a time
NatChunk == 10 ^ 4

NatChunkFromRight(a, k) ==
    NatDigitFromRight(a, k) + 10 * NatDigitFromRight(a, k + 1)
    + 100 * NatDigitFromRight(a, k + 2) + 1000 * NatDigitFromRight(a, k + 3)

NatChunkDigits(n) == <<n \div 1000, (n \div 100) % 10, (n \div 10) % 10, n % 10>>

RECURSIVE NatAddFrom(_, _, _, _)
NatAddFrom(a, b, k, carry) ==
    IF k > Len(a) /\ k > Len(b) THEN NatFromInt(carry)
    ELSE NatAddFrom(a, b, k + 4,
                    (NatChunkFromRight(a, k) + NatChunkFromRight(b, k) + carry) \div NatChunk)
         \o NatChunkDigits((NatChunkFromRight(a, k) + NatChunkFromRight(b, k) + carry) % NatChunk)

NatAdd(a, b) ==
    IF a = <<>> THEN b ELSE IF b = <<>> THEN a ELSE NatNorm(NatAddFrom(a, b, 1, 0))

RECURSIVE NatSubFrom(_, _, _, _)
NatSubFrom(a, b, k, borrow) ==
    IF k > Len(a) THEN <<>>
    ELSE IF NatChunkFromRight(a, k) - NatChunkFromRight(b, k) - borrow >= 0
    THEN NatSubFrom(a, b, k + 4, 0)
         \o NatChunkDigits(NatChunkFromRight(a, k) - NatChunkFromRight(b, k) - borrow)
    ELSE NatSubFrom(a, b, k + 4, 1)
         \o NatChunkDigits(NatChunkFromRight(a, k) - NatChunkFromRight(b, k) - borrow + NatChunk)

\* a minus b, a being at least b
NatSub(a, b) == IF b = <<>> THEN a ELSE NatNorm(NatSubFrom(a, b, 1, 0))

RECURSIVE NatMulSmallFrom(_, _, _, _)
NatMulSmallFrom(a, m, k, carry) ==
    IF k > Len(a) THEN NatFromInt(carry)
    ELSE NatMulSmallFrom(a, m, k + 4, (NatChunkFromRight(a, k) * m + carry) \div NatChunk)
         \o NatChunkDigits((NatChunkFromRight(a, k) * m + carry) % NatChunk)

\* a times the small number m, of at most five digits
NatMulSmall(a, m) ==
    IF a = <<>> \/ m = 0 THEN <<>> ELSE NatNorm(NatMulSmallFrom(a, m, 1, 0))

\* a times the n-th power of ten
NatShift(a, n) == IF a = <<>> THEN <<>> ELSE a \o [i \in 1..n |-> 0]

\* a divided by the n-th power of ten, rounded down
NatDropLast(a, n) == IF n >= Len(a) THEN <<>> ELSE SubSeq(a, 1, Len(a) - n)

\* The remainder of a divided by the n-th power of ten
NatKeepLast(a, n) == IF n >= Len(a) THEN a ELSE NatNorm(SubSeq(a, Len(a) - n + 1, Len(a)))

RECURSIVE NatMulFrom(_, _, _, _)
NatMulFrom(a, b, k, acc) ==
    IF k < 1 THEN acc
    ELSE NatMulFrom(a, b, k - 4,
                    NatAdd(NatShift(acc, 4), NatMulSmall(a, NatChunkFromRight(b, k))))

\* a times b
NatMul(a, b) == NatMulFrom(a, b, 4 * ((Len(b) + 3) \div 4) - 3, <<>>)

\* a times base to the power exponent, step factors of base at a time
RECURSIVE NatMulPower(_, _, _, _)
NatMulPower(a, base, exponent, step) ==
    IF a = <<>> THEN a
    ELSE IF exponent <= step THEN NatMulSmall(a, base ^ exponent)
    ELSE NatMulPower(NatMulSmall(a, base ^ step), base, exponent - step, step)

\* a times 2 to the power exponent
NatShiftLeft(a, exponent) == NatMulPower(a, 2, exponent, 16)

\* a divided by 2 to the power exponent, rounded down: a * 5^exponent without its
\* last exponent digits
NatShiftRight(a, exponent) == NatDropLast(NatMulPower(a, 5, exponent, 7), exponent)

\* d taken once to nine times
NatMultiples(d) ==
    <<d, NatMulSmall(d, 2), NatMulSmall(d, 3), NatMulSmall(d, 4), NatMulSmall(d, 5),
      NatMulSmall(d, 6), NatMulSmall(d, 7), NatMulSmall(d, 8), NatMulSmall(d, 9)>>

\* How many times the divisor goes into cur, which is less than ten times the
\* divisor
NatQuotientDigit(cur, multiples) ==
    IF NatCmp(multiples[1], cur) = 1 THEN 0
    ELSE CHOOSE k \in 1..9 : /\ NatCmp(multiples[k], cur) <= 0
                             /\ (k = 9 \/ NatCmp(multiples[k + 1], cur) = 1)

RECURSIVE NatDivFrom(_, _, _, _)

NatDivNext(n, multiples, cur, quot, k) ==
    NatDivFrom(n, multiples, IF k = 0 THEN cur ELSE NatSub(cur, multiples[k]),
               Append(quot, k))

NatDivDigit(n, multiples, cur, quot) ==
    NatDivNext(n, multiples, cur, quot, NatQuotientDigit(cur, multiples))

\* Long division: quot holds the digits of the quotient of the first Len(quot)
\* digits of n, and rem their remainder
NatDivFrom(n, multiples, rem, quot) ==
    IF Len(quot) = Len(n) THEN [q |-> NatNorm(quot), r |-> rem]
    ELSE NatDivDigit(n, multiples,
                     NatAdd(NatShift(rem, 1), NatFromInt(n[Len(quot) + 1])), quot)

\* The quotient q and the remainder r of n divided by d, d not being zero
NatDivMod(n, d) == NatDivFrom(n, NatMultiples(d), <<>>, <<>>)

\* 1 << 63
MaxUint63 == NatShiftLeft(NatFromInt(1), 63)

\* 1<<63 - 1
MaxInt64 == NatSub(MaxUint63, NatFromInt(1))

\* 1 << 64, where the sums of uint64 wrap around
Uint64Modulus == NatShiftLeft(NatFromInt(1), 64)

----------------------------------------------------------------------------
(* float64, as far as time.ParseDuration computes in it: a float64 is the number
   m * 2^e, m being a natural number of at most 53 bits (1 << 53 included).  The
   numbers met here are neither subnormal nor infinite. *)

Float64Bits == 53

\* The powers of two up to the product of two mantissas
Float64Powers == [k \in 0..(2 * Float64Bits + 2) |-> NatShiftLeft(NatFromInt(1), k)]

\* 1 << 53
Float64Limit == Float64Powers[Float64Bits]

\* bits.Len of the natural number num, which is not zero
Float64Len(num) ==
    CHOOSE k \in ((332 * (Len(num) - 1)) \div 100 + 1)..((333 * Len(num)) \div 100 + 1) :
        /\ NatCmp(num, Float64Powers[k - 1]) >= 0
        /\ NatCmp(num, Float64Powers[k]) = -1

\* The quotient q and the remainder (by its sign against the half) of a division
\* rounded to the nearest whole number, the halfway case going to the even
\* neighbour
Float64Nearest(q, half, e) ==
    IF half = 1 \/ (half = 0 /\ q # <<>> /\ q[Len(q)] % 2 = 1)
    THEN [m |-> NatAdd(q, NatFromInt(1)), e |-> e]
    ELSE [m |-> q, e |-> e]

\* num / 2^e rounded, n being num * 5^e: the quotient is n without its last e
\* digits, and the remainder is these digits
Float64Rounded(n, e) ==
    Float64Nearest(NatDropLast(n, e),
                   NatCmp(NatMulSmall(NatKeepLast(n, e), 2), NatShift(NatFromInt(1), e)),
                   e)

Float64At(num, e) ==
    IF e <= 0 THEN [m |-> num, e |-> 0]
    ELSE Float64Rounded(NatMulPower(num, 5, e, 7), e)

\* float64(num): the float64 nearest to the natural number num
Float64(num) ==
    IF num = <<>> THEN [m |-> <<>>, e |-> 0]
    ELSE Float64At(num, Float64Len(num) - Float64Bits)

Float64Product(p, e) == [m |-> p.m, e |-> p.e + e]

\* x * y in float64
Float64Mul(x, y) == Float64Product(Float64(NatMul(x.m, y.m)), x.e + y.e)

\* The k for which x.m * 2^k / y.m has exactly 53 bits
Float64DivShift(x, y, k) ==
    IF NatCmp(NatShiftLeft(x.m, k), NatShiftLeft(y.m, Float64Bits - 1)) >= 0 THEN k
    ELSE k + 1

Float64DivRounded(x, y, k, d) ==
    Float64Nearest(d.q, NatCmp(NatMulSmall(d.r, 2), y.m), x.e - y.e - k)

Float64DivAt(x, y, k) ==
    Float64DivRounded(x, y, k, NatDivMod(NatShiftLeft(x.m, k), y.m))

\* x / y in float64, neither being zero
Float64Div(x, y) ==
    Float64DivAt(x, y, Float64DivShift(x, y, Float64Bits - 1 + Float64Len(y.m)
                                             - Float64Len(x.m)))

\* uint64(x): the whole part of x
Float64ToUint64(x) ==
    IF x.e >= 0 THEN NatShiftLeft(x.m, x.e)
    ELSE IF 0 - x.e > Float64Bits THEN <<>>
    ELSE NatShiftRight(x.m, 0 - x.e)

----------------------------------------------------------------------------
(* time.Duration and time.ParseDuration.  An instant of the model is a number of
   milliseconds; a time.Duration is a sign and a number of nanoseconds. *)

Minute == 60 * 1000

\* time.Duration
Duration(neg, ns) == [neg |-> neg /\ ns # <<>>, ns |-> ns]

ZeroDuration == Duration(FALSE, <<>>)

\* The time.Duration between two instants that lie ms milliseconds apart
Milliseconds(ms) ==
    IF ms < 0 THEN Duration(TRUE, NatShift(NatFromInt(0 - ms), 6))
    ELSE Duration(FALSE, NatShift(NatFromInt(ms), 6))

\* -1, 0 or 1 as duration a is less than, equal to or greater than duration b
DurationCmp(a, b) ==
    IF a.neg # b.neg THEN (IF a.neg THEN -1 ELSE 1)
    ELSE IF a.neg THEN NatCmp(b.ns, a.ns)
    ELSE NatCmp(a.ns, b.ns)

\* The position after the digits of s that start at position i
RECURSIVE DigitsEnd(_, _)
DigitsEnd(s, i) == IF i <= Len(s) /\ IsDigit(s[i]) THEN DigitsEnd(s, i + 1) ELSE i

\* leadingInt: the number written at position i of s and the position after it; an
\* error when the number passes 1 << 63
LeadingInt(s, i) ==
    LET next == DigitsEnd(s, i)
        x == NatOfDigits(SubSeq(s, i, next - 1))
    IN [err |-> NatCmp(x, MaxUint63) = 1, x |-> x, next |-> next]

\* leadingFraction: the digits at position i of s as a numerator x over the
\* scale-th power of ten, and the position after them; digits that would carry x
\* past 1 << 63 are skipped. x*10 + digit is x with the digit appended.
RECURSIVE LeadingFraction(_, _, _, _, _)
LeadingFraction(s, i, x, scale, overflow) ==
    IF i > Len(s) \/ ~IsDigit(s[i]) THEN [x |-> x, scale |-> scale, next |-> i]
    ELSE IF overflow THEN LeadingFraction(s, i + 1, x, scale, TRUE)
    ELSE IF NatCmp(NatShift(x, 1), MaxInt64) = 1
    THEN LeadingFraction(s, i + 1, x, scale, TRUE)
    ELSE LET y == NatNorm(Append(x, DigitValue(s[i])))
         IN IF NatCmp(y, MaxUint63) = 1
            THEN LeadingFraction(s, i + 1, x, scale, TRUE)
            ELSE LeadingFraction(s, i + 1, y, scale + 1, FALSE)

\* The unit runs up to the next digit or '.'
RECURSIVE UnitEnd(_, _)
UnitEnd(s, i) ==
    IF i <= Len(s) /\ ~(IsDigit(s[i]) \/ s[i] = ".") THEN UnitEnd(s, i + 1) ELSE i

\* The keys of unitMap; the micro sign and the Greek mu are one character each
Units ==
    {<<"n", "s">>, <<"u", "s">>, <<"µ", "s">>, <<"μ", "s">>, <<"m", "s">>,
     <<"s">>, <<"m">>, <<"h">>}

\* unitMap: the nanoseconds of unit u taken x times
UnitMap(u, x) ==
    CASE u = <<"n", "s">> -> x
      [] u \in {<<"u", "s">>, <<"µ", "s">>, <<"μ", "s">>} -> NatShift(x, 3)
      [] u = <<"m", "s">> -> NatShift(x, 6)
      [] u = <<"s">> -> NatShift(x, 9)
      [] u = <<"m">> -> NatShift(NatMulSmall(x, 60), 9)
      [] u = <<"h">> -> NatShift(NatMulSmall(x, 3600), 9)

DurationError == [err |-> TRUE, d |-> ZeroDuration]

RECURSIVE ParseDurationLoop(_, _, _)

\* d += v in uint64: the sum wraps around at 1 << 64
Uint64Add(d, v) ==
    IF NatCmp(NatAdd(d, v), Uint64Modulus) >= 0
    THEN NatSub(NatAdd(d, v), Uint64Modulus)
    ELSE NatAdd(d, v)

\* The end of one group: v, the nanoseconds of the group, is added to d, the
\* nanoseconds counted so far, and the loop goes on at position end. whole is
\* the share of the digits before the point.
ParseDurationSum(s, end, d, whole, v) ==
    IF NatCmp(whole, MaxUint63) = 1 THEN DurationError
    ELSE IF NatCmp(v, MaxUint63) = 1 THEN DurationError
    ELSE IF NatCmp(Uint64Add(d, v), MaxUint63) = 1 THEN DurationError
    ELSE ParseDurationLoop(s, end, Uint64Add(d, v))

\* The scale of leadingFraction after its first n digits: 1 multiplied n times by
\* 10 in float64. The sequence holds the scales of 0 to n digits.
RECURSIVE FractionScalesTo(_)

FractionScalesNext(scales) ==
    Append(scales, Float64Mul(scales[Len(scales)], Float64(NatFromInt(10))))

FractionScalesTo(n) ==
    IF n = 0 THEN <<Float64(NatFromInt(1))>> ELSE FractionScalesNext(FractionScalesTo(n - 1))

\* A fraction is less than 1 << 63, a number of 19 digits, and a unit at most an
\* hour, 3.6e12 ns, a number of 13 digits: with more than 31 digits taken the
\* share of the fraction is below 1, and uint64 gives 0
MaxFractionScale == 19 + 13 - 1

FractionScales == FractionScalesTo(MaxFractionScale)

\* float64(unit) / scale for every unit and every scale
UnitQuotients ==
    [u \in Units |->
        [n \in 0..MaxFractionScale |->
            Float64Div(Float64(UnitMap(u, NatFromInt(1))), FractionScales[n + 1])]]

\* uint64(float64(f) * (float64(unit) / scale)): the share of the fraction f of the
\* unit u, scale being the number of digits leadingFraction has taken
FractionShare(f, u, scale) ==
    IF scale > MaxFractionScale THEN <<>>
    ELSE Float64ToUint64(Float64Mul(Float64(f), UnitQuotients[u][scale]))

\* The number and the unit of one group: int is what leadingInt gave at position
\* i, frac what leadingFraction gave from position fracStart on
ParseDurationNumber(s, i, d, int, frac, fracStart) ==
    LET end == UnitEnd(s, frac.next)
        u == SubSeq(s, frac.next, end - 1)
    IN IF int.err THEN DurationError
       ELSE IF int.next = i /\ frac.next = fracStart THEN DurationError
       ELSE IF end = frac.next THEN DurationError
       ELSE IF u \notin Units THEN DurationError
       ELSE IF frac.x = <<>>
       THEN ParseDurationSum(s, end, d, UnitMap(u, int.x), UnitMap(u, int.x))
       ELSE ParseDurationSum(s, end, d, UnitMap(u, int.x),
                             NatAdd(UnitMap(u, int.x),
                                    FractionShare(frac.x, u, frac.scale)))

\* One group of ParseDuration, int being what leadingInt gave at position i
ParseDurationGroup(s, i, d, int) ==
    IF int.next <= Len(s) /\ s[int.next] = "."
    THEN ParseDurationNumber(s, i, d, int,
                             LeadingFraction(s, int.next + 1, <<>>, 0, FALSE),
                             int.next + 1)
    ELSE ParseDurationNumber(s, i, d, int,
                             [x |-> <<>>, scale |-> 0, next |-> int.next], int.next)

\* The loop of ParseDuration over the <number><unit> groups, d being the
\* nanoseconds counted so far
ParseDurationLoop(s, i, d) ==
    IF i > Len(s) THEN [err |-> FALSE, d |-> d]
    ELSE IF ~(s[i] = "." \/ IsDigit(s[i])) THEN DurationError
    ELSE ParseDurationGroup(s, i, d, LeadingInt(s, i))

\* The end of ParseDuration: the sign is put on the nanoseconds the loop counted
ParseDurationSigned(neg, r) ==
    IF r.err THEN DurationError
    ELSE IF neg THEN [err |-> FALSE, d |-> Duration(TRUE, r.d)]
    ELSE IF NatCmp(r.d, MaxInt64) = 1 THEN DurationError
    ELSE [err |-> FALSE, d |-> Duration(FALSE, r.d)]

\* time.ParseDuration
ParseDuration(s) ==
    LET signed == Len(s) > 0 /\ (s[1] = "-" \/ s[1] = "+")
        neg == Len(s) > 0 /\ s[1] = "-"
        rest == IF signed THEN Tail(s) ELSE s
    IN IF rest = <<"0">> THEN [err |-> FALSE, d |-> ZeroDuration]
       ELSE IF rest = <<>> THEN DurationError
       ELSE ParseDurationSigned(neg, ParseDurationLoop(rest, 1, <<>>))

----------------------------------------------------------------------------
(* ex-priority: preemption and reclaim *)

\* *metav1.Time: nil, or an instant.  The instant 0 is the zero time.Time, which
\* lies before every other instant by more than a time.Duration can hold.
NilTime == [isNil |-> TRUE, Time |-> 0]
MetaTime(t) == [isNil |-> FALSE, Time |-> t]

\* t.Add(d).After(u), u being an instant other than the zero time.Time
AddedIsAfter(t, d, u) ==
    IF t = 0 THEN FALSE ELSE DurationCmp(d, Milliseconds(u - t)) = 1

\* *v1.Pod: nil, or the annotations and status.startTime of the pod
NilPod ==
    [isNil |-> TRUE, Annotations |-> <<>>, StartTime |-> NilTime,
     CreationTimestamp |-> 0]
Pod(annotations, startTime) ==
    [isNil |-> FALSE, Annotations |-> annotations, StartTime |-> startTime,
     CreationTimestamp |-> 0]
\* A pod with its creation timestamp
PodCreatedAt(startTime, creationTimestamp) ==
    [isNil |-> FALSE, Annotations |-> <<>>, StartTime |-> startTime,
     CreationTimestamp |-> creationTimestamp]

\* api.TaskInfo
TaskInfo(job, priority, pod) == [Job |-> job, Priority |-> priority, Pod |-> pod]

\* A nil *api.TaskInfo
NilTaskInfo == [isNil |-> TRUE]

\* isTaskTimedOut that does not ask whether the duration is positive
isTaskTimedOutAnyDuration(cfg, task, time) ==
    IF cfg.MaxRunTimeAnnotationKey = "" \/ task = NilTaskInfo THEN FALSE
    ELSE IF task.Pod.isNil THEN FALSE
    ELSE IF cfg.MaxRunTimeAnnotationKey \notin DOMAIN task.Pod.Annotations THEN FALSE
    ELSE IF task.Pod.Annotations[cfg.MaxRunTimeAnnotationKey] = <<>> THEN FALSE
    ELSE IF task.Pod.StartTime.isNil THEN FALSE
    ELSE LET maxRunTime ==
                ParseDuration(task.Pod.Annotations[cfg.MaxRunTimeAnnotationKey])
         IN IF maxRunTime.err THEN FALSE
            ELSE ~AddedIsAfter(task.Pod.StartTime.Time, maxRunTime.d, time)

\* (*exPriorityPlugin).isTaskTimedOut
isTaskTimedOut(cfg, task, time) ==
    IF cfg.MaxRunTimeAnnotationKey = "" \/ task = NilTaskInfo THEN FALSE
    ELSE IF task.Pod.isNil THEN FALSE
    ELSE IF cfg.MaxRunTimeAnnotationKey \notin DOMAIN task.Pod.Annotations THEN FALSE
    ELSE IF task.Pod.Annotations[cfg.MaxRunTimeAnnotationKey] = <<>> THEN FALSE
    ELSE IF task.Pod.StartTime.isNil THEN FALSE
    ELSE LET maxRunTime ==
                ParseDuration(task.Pod.Annotations[cfg.MaxRunTimeAnnotationKey])
         IN IF maxRunTime.err \/ DurationCmp(maxRunTime.d, ZeroDuration) <= 0
            THEN FALSE
            ELSE ~AddedIsAfter(task.Pod.StartTime.Time, maxRunTime.d, time)

\* A caller asks at the present instant whether a task has run out of time
CallIsTaskTimedOut(task) ==
    /\ ret = NoReturn
    /\ ret' = [fn |-> "isTaskTimedOut", task |-> task, now |-> now,
               result |-> isTaskTimedOut(config, task, now)]
    /\ UNCHANGED <<config, rules, ssnJobs, now, pc, plugins, opened, fns, snapshot,
                   openedAt, closedSessions, groupquota, openOrder>>

\* What a callback hands back: the victims with util.Permit, or a panic on the
\* dereference of a job that ssn.Jobs does not hold
Victims(victims) == [status |-> Permit, victims |-> victims]
Panic == [status |-> "panic", victims |-> <<>>]

\* ssn.Jobs[id] is nil when the session holds no job of that id
IsNilJob(jobs, id) == id \notin DOMAIN jobs

\* The loop of preemptableFn from candidate i on
RECURSIVE PreemptLoop(_, _, _, _, _, _, _)
PreemptLoop(cfg, jobs, time, preemptor, preemptees, i, victims) ==
    IF i > Len(preemptees) THEN Victims(victims)
    ELSE LET preemptee == preemptees[i]
             next(vs) == PreemptLoop(cfg, jobs, time, preemptor, preemptees, i + 1, vs)
         IN IF isTaskTimedOut(cfg, preemptee, time)
            THEN IF IsNilJob(jobs, preemptee.Job) THEN Panic
                 ELSE next(Append(victims, preemptee))
            ELSE IF ~cfg.Preemptible.isNil /\ IsNilJob(jobs, preemptee.Job) THEN Panic
            ELSE IF ~cfg.Preemptible.isNil
                    /\ ~PrioritySelectorMatches(cfg.Preemptible,
                                                jobs[preemptee.Job].Priority)
            THEN next(victims)
            ELSE IF IsNilJob(jobs, preemptee.Job) \/ IsNilJob(jobs, preemptor.Job)
            THEN Panic
            ELSE IF jobs[preemptee.Job].UID # jobs[preemptor.Job].UID
            THEN IF jobs[preemptee.Job].Priority >= jobs[preemptor.Job].Priority
                 THEN next(victims)
                 ELSE next(Append(victims, preemptee))
            ELSE IF preemptee.Priority >= preemptor.Priority
                 THEN next(victims)
                 ELSE next(Append(victims, preemptee))

\* preemptableFn, registered by OnSessionOpen
preemptableFn(cfg, jobs, time, preemptor, preemptees) ==
    PreemptLoop(cfg, jobs, time, preemptor, preemptees, 1, <<>>)

\* The loop of reclaimableFn from candidate i on
RECURSIVE ReclaimLoop(_, _, _, _, _, _, _)
ReclaimLoop(cfg, jobs, time, reclaimer, reclaimees, i, victims) ==
    IF i > Len(reclaimees) THEN Victims(victims)
    ELSE LET reclaimee == reclaimees[i]
             next(vs) == ReclaimLoop(cfg, jobs, time, reclaimer, reclaimees, i + 1, vs)
         IN IF isTaskTimedOut(cfg, reclaimee, time)
            THEN IF IsNilJob(jobs, reclaimee.Job) THEN Panic
                 ELSE next(Append(victims, reclaimee))
            ELSE IF ~cfg.Reclaimable.isNil /\ IsNilJob(jobs, reclaimee.Job) THEN Panic
            ELSE IF ~cfg.Reclaimable.isNil
                    /\ ~PrioritySelectorMatches(cfg.Reclaimable,
                                                jobs[reclaimee.Job].Priority)
            THEN next(victims)
            ELSE IF IsNilJob(jobs, reclaimee.Job) \/ IsNilJob(jobs, reclaimer.Job)
            THEN Panic
            ELSE IF jobs[reclaimee.Job].UID # jobs[reclaimer.Job].UID
            THEN IF jobs[reclaimee.Job].Priority >= jobs[reclaimer.Job].Priority
                 THEN next(victims)
                 ELSE next(Append(victims, reclaimee))
            ELSE IF reclaimee.Priority >= reclaimer.Priority
                 THEN next(victims)
                 ELSE next(Append(victims, reclaimee))

\* reclaimableFn that is gated by the preemptible selector
reclaimableFnGatedByPreemptible(cfg, jobs, time, reclaimer, reclaimees) ==
    PreemptLoop(cfg, jobs, time, reclaimer, reclaimees, 1, <<>>)

\* reclaimableFn, registered by OnSessionOpen
reclaimableFn(cfg, jobs, time, reclaimer, reclaimees) ==
    ReclaimLoop(cfg, jobs, time, reclaimer, reclaimees, 1, <<>>)

\* The host's preempt action asks which of the candidates may be preempted
CallPreemptable(preemptor, preemptees) ==
    /\ pc = "running"
    /\ ret = NoReturn
    /\ <<ExPriority, "preemptableFn">> \in fns
    /\ ret' = [fn |-> "preemptableFn", actor |-> preemptor, candidates |-> preemptees,
               result |-> preemptableFn(config, ssnJobs, now, preemptor, preemptees)]
    /\ UNCHANGED <<config, rules, ssnJobs, now, pc, plugins, opened, fns, snapshot, openedAt, closedSessions,
                   groupquota, openOrder>>

\* The host's reclaim action asks which of the candidates may be reclaimed
CallReclaimable(reclaimer, reclaimees) ==
    /\ pc = "running"
    /\ ret = NoReturn
    /\ <<ExPriority, "reclaimableFn">> \in fns
    /\ ret' = [fn |-> "reclaimableFn", actor |-> reclaimer, candidates |-> reclaimees,
               result |-> reclaimableFn(config, ssnJobs, now, reclaimer, reclaimees)]
    /\ UNCHANGED <<config, rules, ssnJobs, now, pc, plugins, opened, fns, snapshot, openedAt, closedSessions,
                   groupquota, openOrder>>

\* Time passes between two invocations
Tick ==
    /\ now < MaxNow * Minute
    /\ ret = NoReturn
    /\ now' = now + Minute
    /\ UNCHANGED <<config, rules, ssnJobs, pc, plugins, opened, fns, snapshot, ret, openedAt, closedSessions,
                   groupquota, openOrder>>

----------------------------------------------------------------------------
(* ex-priority: ordering *)

\* api.SubJobInfo
SubJobInfo(uid, priority) == [UID |-> uid, Priority |-> priority]

\* getTaskCreationTime that prefers the creation timestamp of the pod to its start
\* time
getTaskCreationTimeCreationFirst(task) ==
    IF task = NilTaskInfo THEN 0
    ELSE IF task.Pod.isNil THEN 0
    ELSE IF task.Pod.CreationTimestamp # 0 THEN task.Pod.CreationTimestamp
    ELSE task.Pod.StartTime.Time

\* getTaskCreationTime
getTaskCreationTime(task) ==
    IF task = NilTaskInfo THEN 0
    ELSE IF task.Pod.isNil THEN 0
    ELSE IF ~task.Pod.StartTime.isNil THEN task.Pod.StartTime.Time
    ELSE IF task.Pod.CreationTimestamp # 0 THEN task.Pod.CreationTimestamp
    ELSE 0

\* The loop of compareTasks that orders by creation time without asking whether
\* the two times are equal
RECURSIVE CompareTasksFromUnequalAssumed(_, _, _, _)
CompareTasksFromUnequalAssumed(cfg, l, r, i) ==
    IF i > Len(cfg.SortOrder) THEN 0
    ELSE IF cfg.SortOrder[i] = SortByPriority
    THEN IF l.Priority > r.Priority THEN -1
         ELSE IF l.Priority < r.Priority THEN 1
         ELSE CompareTasksFromUnequalAssumed(cfg, l, r, i + 1)
    ELSE IF cfg.SortOrder[i] = SortByCreationTime
    THEN LET lTime == getTaskCreationTime(l)
             rTime == getTaskCreationTime(r)
         IN IF lTime # 0 /\ rTime # 0
            THEN IF lTime < rTime THEN -1 ELSE 1
            ELSE CompareTasksFromUnequalAssumed(cfg, l, r, i + 1)
    ELSE CompareTasksFromUnequalAssumed(cfg, l, r, i + 1)

\* The loop of compareTasks over the sort order from key i on
RECURSIVE CompareTasksFrom(_, _, _, _)
CompareTasksFrom(cfg, l, r, i) ==
    IF i > Len(cfg.SortOrder) THEN 0
    ELSE IF cfg.SortOrder[i] = SortByPriority
    THEN IF l.Priority > r.Priority THEN -1
         ELSE IF l.Priority < r.Priority THEN 1
         ELSE CompareTasksFrom(cfg, l, r, i + 1)
    ELSE IF cfg.SortOrder[i] = SortByCreationTime
    THEN LET lTime == getTaskCreationTime(l)
             rTime == getTaskCreationTime(r)
         IN IF lTime # 0 /\ rTime # 0 /\ lTime # rTime
            THEN IF lTime < rTime THEN -1 ELSE 1
            ELSE CompareTasksFrom(cfg, l, r, i + 1)
    ELSE CompareTasksFrom(cfg, l, r, i + 1)

\* (*exPriorityPlugin).compareTasks
compareTasks(cfg, l, r) == CompareTasksFrom(cfg, l, r, 1)

\* The loop of compareJobs that returns what the first key of the sort order
\* says, equal or not
CompareJobsFirstKeyOnly(cfg, l, r, i) ==
    IF i > Len(cfg.SortOrder) THEN 0
    ELSE IF cfg.SortOrder[i] = SortByPriority
    THEN IF l.Priority > r.Priority THEN -1
         ELSE IF l.Priority < r.Priority THEN 1
         ELSE 0
    ELSE IF cfg.SortOrder[i] = SortByCreationTime
    THEN IF l.CreationTimestamp # 0 /\ r.CreationTimestamp # 0
         THEN IF l.CreationTimestamp < r.CreationTimestamp THEN -1
              ELSE IF r.CreationTimestamp < l.CreationTimestamp THEN 1
              ELSE 0
         ELSE 0
    ELSE 0

\* The loop of compareJobs over the sort order from key i on
RECURSIVE CompareJobsFrom(_, _, _, _)
CompareJobsFrom(cfg, l, r, i) ==
    IF i > Len(cfg.SortOrder) THEN 0
    ELSE IF cfg.SortOrder[i] = SortByPriority
    THEN IF l.Priority > r.Priority THEN -1
         ELSE IF l.Priority < r.Priority THEN 1
         ELSE CompareJobsFrom(cfg, l, r, i + 1)
    ELSE IF cfg.SortOrder[i] = SortByCreationTime
    THEN IF l.CreationTimestamp # 0 /\ r.CreationTimestamp # 0
         THEN IF l.CreationTimestamp < r.CreationTimestamp THEN -1
              ELSE IF r.CreationTimestamp < l.CreationTimestamp THEN 1
              ELSE CompareJobsFrom(cfg, l, r, i + 1)
         ELSE CompareJobsFrom(cfg, l, r, i + 1)
    ELSE CompareJobsFrom(cfg, l, r, i + 1)

\* (*exPriorityPlugin).compareJobs
compareJobs(cfg, l, r) == CompareJobsFrom(cfg, l, r, 1)

\* The loop of compareSubJobs over the sort order from key i on
RECURSIVE CompareSubJobsFrom(_, _, _, _)
CompareSubJobsFrom(cfg, l, r, i) ==
    IF i > Len(cfg.SortOrder) THEN 0
    ELSE IF cfg.SortOrder[i] = SortByPriority
    THEN IF l.Priority > r.Priority THEN -1
         ELSE IF l.Priority < r.Priority THEN 1
         ELSE CompareSubJobsFrom(cfg, l, r, i + 1)
    ELSE CompareSubJobsFrom(cfg, l, r, i + 1)

\* (*exPriorityPlugin).compareSubJobs
compareSubJobs(cfg, l, r) == CompareSubJobsFrom(cfg, l, r, 1)

\* The host invokes taskOrderFn on two tasks
CallTaskOrder(l, r) ==
    /\ pc = "running"
    /\ ret = NoReturn
    /\ <<ExPriority, "taskOrderFn">> \in fns
    /\ ret' = [fn |-> "taskOrderFn", plugin |-> ExPriority, l |-> l, r |-> r,
               result |-> compareTasks(config, l, r)]
    /\ UNCHANGED <<config, rules, ssnJobs, now, pc, plugins, opened, fns, snapshot,
                   openedAt, closedSessions,
                   groupquota, openOrder>>

\* The host invokes a jobOrderFn that answers from the jobs as they were when the
\* open hook of ex-priority ran
CallJobOrderAsCapturedAtOpen(l, r) ==
    /\ pc = "running"
    /\ ret = NoReturn
    /\ <<ExPriority, "jobOrderFn">> \in fns
    /\ l \in DOMAIN ssnJobs
    /\ r \in DOMAIN ssnJobs
    /\ LET captured == IF openOrder[1] = ExPriority THEN snapshot ELSE ssnJobs
       IN ret' = [fn |-> "jobOrderFn", plugin |-> ExPriority, l |-> l, r |-> r,
                  result |-> compareJobs(config, captured[l], captured[r])]
    /\ UNCHANGED <<config, rules, ssnJobs, now, pc, plugins, opened, fns, snapshot,
                   openedAt, closedSessions,
                   groupquota, openOrder>>

\* The host invokes jobOrderFn on two jobs of the session
CallJobOrder(l, r) ==
    /\ pc = "running"
    /\ ret = NoReturn
    /\ <<ExPriority, "jobOrderFn">> \in fns
    /\ l \in DOMAIN ssnJobs
    /\ r \in DOMAIN ssnJobs
    /\ ret' = [fn |-> "jobOrderFn", plugin |-> ExPriority, l |-> l, r |-> r,
               result |-> compareJobs(config, ssnJobs[l], ssnJobs[r])]
    /\ UNCHANGED <<config, rules, ssnJobs, now, pc, plugins, opened, fns, snapshot,
                   openedAt, closedSessions,
                   groupquota, openOrder>>

\* The host invokes subJobOrderFn on two sub-jobs
CallSubJobOrder(l, r) ==
    /\ pc = "running"
    /\ ret = NoReturn
    /\ <<ExPriority, "subJobOrderFn">> \in fns
    /\ ret' = [fn |-> "subJobOrderFn", plugin |-> ExPriority, l |-> l, r |-> r,
               result |-> compareSubJobs(config, l, r)]
    /\ UNCHANGED <<config, rules, ssnJobs, now, pc, plugins, opened, fns, snapshot,
                   openedAt, closedSessions,
                   groupquota, openOrder>>

----------------------------------------------------------------------------
(* group-quota *)

GroupQuota == "groupquota"
DefaultAnnotationKey == "example.com/group"

\* A value of framework.Arguments: a string, or a value of another type
StringValue(str) == [isString |-> TRUE, str |-> str]
OtherValue == [isString |-> FALSE, str |-> ""]

\* A value of the resource map: a string, given by its characters, or a value of
\* another type
QuantityString(chars) == [isString |-> TRUE, str |-> chars]
NotAString == [isString |-> FALSE, str |-> <<>>]

\* The value under "resourceMap": a map from names to values, or something else
ResourceMap(entries) == [isMap |-> TRUE, entries |-> entries]
NotAMap == [isMap |-> FALSE, entries |-> <<>>]

NoQuotaArguments ==
    [annotationKey |-> NotGiven(OtherValue), resourceMap |-> NotGiven(NotAMap)]

\* New of group-quota: the plugin keeps its arguments
GroupQuotaNew(arguments) ==
    [pluginArguments |-> arguments, annotationKey |-> "", quota |-> <<>>,
     groupUsage |-> <<>>, overQuotaGroups |-> {}]

(* resource.Quantity and resource.ParseQuantity.  A quantity is a sign and a
   number of units of 10^(-scale): the number written as the digits n followed
   by zeros zeros.  It is held as an int64Amount (the field i of Quantity) or,
   where dec is set, as an inf.Dec (the field d), whose unscaled value that
   number is.  scale is the scale of the inf.Dec; the Scale of the int64Amount
   is its negation.  The scales are int32, and their sums and differences wrap
   around. *)

Nano == 9

MaxInt32 == 2147483647
MinInt32 == -MaxInt32 - 1

\* maxInt64Factors
MaxInt64Factors == 18

\* a + b in int32
Int32Add(a, b) ==
    IF a >= 0 /\ b > MaxInt32 - a THEN (a - MaxInt32 - 1) + (b - MaxInt32 - 1)
    ELSE IF a < 0 /\ b < MinInt32 - a THEN (a - MinInt32) + (b - MinInt32)
    ELSE a + b

\* -a in int32
Int32Neg(a) == IF a = MinInt32 THEN MinInt32 ELSE 0 - a

\* a - b in int32
Int32Sub(a, b) == Int32Add(a, Int32Neg(b))

\* A quantity held as an int64Amount
Quantity(neg, n, scale) ==
    [neg |-> neg /\ n # <<>>, n |-> n, zeros |-> 0, scale |-> scale, dec |-> FALSE]

\* A quantity held as an inf.Dec
DecQuantity(neg, n, zeros, scale) ==
    [neg |-> neg /\ n # <<>>, n |-> n, zeros |-> IF n = <<>> THEN 0 ELSE zeros,
     scale |-> scale, dec |-> TRUE]

\* resource.NewMilliQuantity
NewMilliQuantity(value) ==
    IF value < 0 THEN Quantity(TRUE, NatFromInt(0 - value), 3)
    ELSE Quantity(FALSE, NatFromInt(value), 3)

\* resource.NewQuantity
NewQuantity(value) ==
    IF value < 0 THEN Quantity(TRUE, NatFromInt(0 - value), 0)
    ELSE Quantity(FALSE, NatFromInt(value), 0)

\* An int64 or a big.Int, by its sign and its size
Int64(neg, n) == [neg |-> neg /\ n # <<>>, n |-> n]

\* -1, 0 or 1 as the whole number a is less than, equal to or greater than b
ValueCmp(a, b) ==
    IF a.neg # b.neg THEN (IF a.neg THEN -1 ELSE 1)
    ELSE IF a.neg THEN NatCmp(b.n, a.n)
    ELSE NatCmp(a.n, b.n)

\* -1, 0 or 1 as the whole number a is below, at or above zero
ValueSign(a) == IF a.n = <<>> THEN 0 ELSE IF a.neg THEN -1 ELSE 1

\* a + b
ValueAdd(a, b) ==
    IF a.neg = b.neg THEN Int64(a.neg, NatAdd(a.n, b.n))
    ELSE IF NatCmp(a.n, b.n) >= 0 THEN Int64(a.neg, NatSub(a.n, b.n))
    ELSE Int64(b.neg, NatSub(b.n, a.n))

\* The whole number a is within the range of int64, as every number of
\* maxInt64Factors digits is
InInt64(a) ==
    \/ Len(a.n) <= MaxInt64Factors
    \/ NatCmp(a.n, IF a.neg THEN MaxUint63 ELSE MaxInt64) <= 0

\* The Scale of the int64Amount of q
Int64Scale(q) == Int32Neg(q.scale)

\* What a comparison gives: -1, 0 or 1, or a panic of the runtime
CmpResult(c) == [panic |-> FALSE, cmp |-> c]
CmpPanic == [panic |-> TRUE, cmp |-> 0]

\* divideByScaleInt64: base divided by 10^scale and the remainder, both of the
\* sign of base.  From 18 places on the division is not made and is reported as
\* inexact.  pow10Int64 of a negative scale is 0, and the division by it panics.
divideByScaleInt64(base, scale) ==
    IF scale = 0
    THEN [result |-> Int64(base.neg, base.n), remainder |-> Int64(FALSE, <<>>),
          exact |-> TRUE, panic |-> FALSE]
    ELSE IF scale >= MaxInt64Factors
    THEN [result |-> Int64(FALSE, <<>>), remainder |-> Int64(base.neg, base.n),
          exact |-> FALSE, panic |-> FALSE]
    ELSE IF scale < 0
    THEN [result |-> Int64(FALSE, <<>>), remainder |-> Int64(FALSE, <<>>),
          exact |-> FALSE, panic |-> TRUE]
    ELSE [result |-> Int64(base.neg, NatDropLast(base.n, scale)),
          remainder |-> Int64(base.neg, NatKeepLast(base.n, scale)),
          exact |-> TRUE, panic |-> FALSE]

\* A big.Int: the digits n followed by zeros, whose number zeros is itself
\* written in digits
Unscaled(neg, n, zeros) ==
    [panic |-> FALSE, neg |-> neg /\ n # <<>>, n |-> n,
     zeros |-> IF n = <<>> THEN <<>> ELSE zeros]

\* (*Dec).UnscaledBig
UnscaledBig(x) == Unscaled(x.neg, x.n, NatFromInt(x.zeros))

\* (*Dec).rescale: the unscaled value of x at the scale newScale, which is x
\* times a power of ten, or x divided by one and cut off.  exp10 of a negative
\* number indexes its table out of range and panics.
rescale(x, newScale) ==
    LET shift == Int32Sub(newScale, x.scale)
    IN IF shift >= 0
       THEN Unscaled(x.neg, x.n, NatAdd(NatFromInt(x.zeros), NatFromInt(shift)))
       ELSE IF Int32Neg(shift) < 0
       THEN [panic |-> TRUE, neg |-> FALSE, n |-> <<>>, zeros |-> <<>>]
       ELSE IF Int32Neg(shift) <= x.zeros
       THEN Unscaled(x.neg, x.n, NatFromInt(x.zeros - Int32Neg(shift)))
       ELSE Unscaled(x.neg, NatDropLast(x.n, Int32Neg(shift) - x.zeros), <<>>)

\* (*big.Int).Cmp on the sizes of x and y
UnscaledSizeCmp(x, y) ==
    IF x.n = <<>> \/ y.n = <<>> THEN NatCmp(x.n, y.n)
    ELSE IF NatCmp(NatAdd(NatFromInt(Len(x.n)), x.zeros),
                   NatAdd(NatFromInt(Len(y.n)), y.zeros)) # 0
    THEN NatCmp(NatAdd(NatFromInt(Len(x.n)), x.zeros),
                NatAdd(NatFromInt(Len(y.n)), y.zeros))
    ELSE IF Len(x.n) < Len(y.n)
    THEN NatCmp(NatShift(x.n, Len(y.n) - Len(x.n)), y.n)
    ELSE NatCmp(x.n, NatShift(y.n, Len(x.n) - Len(y.n)))

\* (*big.Int).Cmp
UnscaledCmp(x, y) ==
    IF x.neg # y.neg THEN (IF x.neg THEN -1 ELSE 1)
    ELSE IF x.neg THEN UnscaledSizeCmp(y, x)
    ELSE UnscaledSizeCmp(x, y)

\* The comparison of the unscaled values that upscale has brought to one scale
UpscaledCmp(xx, yy) ==
    IF xx.panic \/ yy.panic THEN CmpPanic ELSE CmpResult(UnscaledCmp(xx, yy))

\* (*Dec).Cmp on q.AsDec() and y.AsDec(): upscale takes the one of the lesser scale
\* to the scale of the other, and the unscaled values are compared
DecCmp(q, y) ==
    IF q.scale = y.scale THEN UpscaledCmp(UnscaledBig(q), UnscaledBig(y))
    ELSE IF q.scale > y.scale
    THEN UpscaledCmp(UnscaledBig(q), rescale(y, q.scale))
    ELSE UpscaledCmp(rescale(q, y.scale), UnscaledBig(y))

\* int64Amount.Cmp: the value of the lesser scale is divided to the scale of the
\* other, and where the quotients are equal the remainder decides
int64AmountCmp(a, b) ==
    IF Int64Scale(a) = Int64Scale(b) THEN CmpResult(ValueCmp(a, b))
    ELSE IF Int64Scale(a) > Int64Scale(b)
    THEN LET d == divideByScaleInt64(b, Int32Sub(Int64Scale(a), Int64Scale(b)))
         IN IF d.panic THEN CmpPanic
            ELSE IF ~d.exact THEN DecCmp(a, b)
            ELSE IF ValueCmp(d.result, a) = 0
            THEN CmpResult(0 - ValueSign(d.remainder))
            ELSE CmpResult(ValueCmp(a, d.result))
    ELSE LET d == divideByScaleInt64(a, Int32Sub(Int64Scale(b), Int64Scale(a)))
         IN IF d.panic THEN CmpPanic
            ELSE IF ~d.exact THEN DecCmp(a, b)
            ELSE IF ValueCmp(d.result, b) = 0
            THEN CmpResult(ValueSign(d.remainder))
            ELSE CmpResult(ValueCmp(d.result, b))

\* (*Quantity).Cmp: -1, 0 or 1 as q is less than, equal to or greater than y,
\* unless the comparison panics
QuantityCmp(q, y) ==
    IF ~q.dec /\ ~y.dec THEN int64AmountCmp(q, y) ELSE DecCmp(q, y)

\* positiveScaleInt64: base times 10^scale where that fits an int64.  A negative
\* scale leaves base as it is.
positiveScaleInt64(base, scale) ==
    IF scale <= 0 \/ base.n = <<>> THEN [ok |-> TRUE, value |-> Int64(base.neg, base.n)]
    ELSE IF scale > MaxInt64Factors THEN [ok |-> FALSE, value |-> Int64(FALSE, <<>>)]
    ELSE [ok |-> InInt64(Int64(base.neg, NatShift(base.n, scale))),
          value |-> Int64(base.neg, NatShift(base.n, scale))]

\* The int64Amount of value at the scale of the inf.Dec, where value fits
Int64Sum(value, scale, ok) ==
    [ok |-> ok /\ InInt64(value), q |-> Quantity(value.neg, value.n, scale)]

\* (*int64Amount).Add: a + b at the lesser of the two Scales, where the sum and
\* what leads to it fit an int64
int64AmountAdd(a, b) ==
    IF b.n = <<>> THEN [ok |-> TRUE, q |-> a]
    ELSE IF a.n = <<>> THEN [ok |-> TRUE, q |-> b]
    ELSE IF Int64Scale(a) = Int64Scale(b) THEN Int64Sum(ValueAdd(a, b), a.scale, TRUE)
    ELSE IF Int64Scale(a) > Int64Scale(b)
    THEN LET c == positiveScaleInt64(a, Int32Sub(Int64Scale(a), Int64Scale(b)))
         IN Int64Sum(ValueAdd(c.value, b), b.scale, c.ok)
    ELSE LET c == positiveScaleInt64(b, Int32Sub(Int64Scale(b), Int64Scale(a)))
         IN Int64Sum(ValueAdd(a, c.value), a.scale, c.ok)

\* (*Dec).Add on q.AsDec() and y.AsDec(), whose scales are a few places apart
DecAdd(q, y) ==
    LET scale == IF q.scale > y.scale THEN q.scale ELSE y.scale
        sum == ValueAdd(Int64(q.neg, NatShift(q.n, q.zeros + scale - q.scale)),
                        Int64(y.neg, NatShift(y.n, y.zeros + scale - y.scale)))
    IN DecQuantity(sum.neg, sum.n, 0, scale)

\* (*Quantity).Add: q + y, held as an int64Amount where both are and the sum
\* fits, and as an inf.Dec otherwise
QuantityAdd(q, y) ==
    IF ~q.dec /\ ~y.dec /\ int64AmountAdd(q, y).ok THEN int64AmountAdd(q, y).q
    ELSE DecAdd(q, y)

\* What ParseQuantity gives: a quantity, an error, or a panic of the runtime
QuantityParsed(q) == [err |-> FALSE, panic |-> FALSE, q |-> q]
QuantityError == [err |-> TRUE, panic |-> FALSE, q |-> Quantity(FALSE, <<>>, Nano)]
QuantityPanic == [err |-> FALSE, panic |-> TRUE, q |-> Quantity(FALSE, <<>>, Nano)]

\* The position after the zeros of str that start at position i
RECURSIVE ZeroesEnd(_, _)
ZeroesEnd(str, i) == IF i <= Len(str) /\ str[i] = "0" THEN ZeroesEnd(str, i + 1) ELSE i

\* The position after the characters of "eEinumkKMGTP" that start at position i
RECURSIVE SuffixLettersEnd(_, _)
SuffixLettersEnd(str, i) ==
    IF i <= Len(str)
       /\ str[i] \in {"e", "E", "i", "n", "u", "m", "k", "K", "M", "G", "T", "P"}
    THEN SuffixLettersEnd(str, i + 1)
    ELSE i

\* parseQuantityString after its loops Zeroes and Num, which end before the
\* positions numStart and numEnd: the sign, the digits before and after the point
\* and the suffix of str; digits tells whether value holds a digit
parseNum(str, start, numStart, numEnd) ==
    LET point == numEnd <= Len(str) /\ str[numEnd] = "."
        denomEnd == IF point THEN DigitsEnd(str, numEnd + 1) ELSE numEnd
        lettersEnd == SuffixLettersEnd(str, denomEnd)
        expStart == IF lettersEnd <= Len(str) /\ (str[lettersEnd] = "+" \/ str[lettersEnd] = "-")
                    THEN lettersEnd + 1 ELSE lettersEnd
    IN [positive |-> ~(Len(str) > 0 /\ str[1] = "-"),
        digits |-> numEnd > start \/ denomEnd > numEnd + 1 \/ numStart > Len(str),
        num |-> IF numEnd > numStart THEN SubSeq(str, numStart, numEnd - 1) ELSE <<"0">>,
        denom |-> IF point THEN SubSeq(str, numEnd + 1, denomEnd - 1) ELSE <<>>,
        suffix |-> SubSeq(str, denomEnd, Len(str)),
        err |-> lettersEnd <= Len(str) /\ DigitsEnd(str, expStart) <= Len(str)]

\* parseQuantityString
parseQuantityString(str) ==
    LET signed == Len(str) > 0 /\ (str[1] = "+" \/ str[1] = "-")
        start == IF signed THEN 2 ELSE 1
    IN parseNum(str, start, ZeroesEnd(str, start), DigitsEnd(str, ZeroesEnd(str, start)))

\* The range check of strconv.ParseInt for 64 bits
ParseIntRange(neg, n) ==
    IF NatCmp(n, IF neg THEN MaxUint63 ELSE MaxInt64) = 1
    THEN [err |-> TRUE, neg |-> FALSE, n |-> <<>>]
    ELSE [err |-> FALSE, neg |-> neg /\ n # <<>>, n |-> n]

\* strconv.ParseInt(s, 10, 64) of the exponent that follows "e" or "E": an
\* optional sign and at least one digit, within the range of int64
ParseInt(s) ==
    LET signed == Len(s) > 0 /\ (s[1] = "+" \/ s[1] = "-")
        digits == IF signed THEN Tail(s) ELSE s
    IN IF digits = <<>> \/ DigitsEnd(digits, 1) <= Len(digits)
       THEN [err |-> TRUE, neg |-> FALSE, n |-> <<>>]
       ELSE ParseIntRange(s[1] = "-", NatOfDigits(digits))

\* The number a, which is below 2^31, as an integer
RECURSIVE NatToInt(_)
NatToInt(a) ==
    IF a = <<>> THEN 0 ELSE NatToInt(SubSeq(a, 1, Len(a) - 1)) * 10 + a[Len(a)]

\* The low 32 bits of the number of digits n from position i on, which follow a
\* number whose low 32 bits are hi * 2^16 + lo
RECURSIVE NatLow32(_, _, _, _)
NatLow32(n, i, hi, lo) ==
    IF i > Len(n) THEN [hi |-> hi, lo |-> lo]
    ELSE NatLow32(n, i + 1, (hi * 10 + (lo * 10 + n[i]) \div 65536) % 65536,
                  (lo * 10 + n[i]) % 65536)

\* The low 32 bits of the int64 of sign neg and size n, in two halves of 16 bits:
\* those of a negative number are the two's complement of those of its size
Int64Low32(neg, n) ==
    IF neg
    THEN [hi |-> (65536 - NatLow32(n, 1, 0, 0).hi
                    - (IF NatLow32(n, 1, 0, 0).lo = 0 THEN 0 ELSE 1)) % 65536,
          lo |-> (65536 - NatLow32(n, 1, 0, 0).lo) % 65536]
    ELSE NatLow32(n, 1, 0, 0)

\* The 32 bits low read as an int32
Int32OfBits(low) ==
    IF low.hi >= 32768 THEN (low.hi - 65536) * 65536 + low.lo
    ELSE low.hi * 65536 + low.lo

\* int32(parsed), parsed being an int64
Int32OfInt64(parsed) == Int32OfBits(Int64Low32(parsed.neg, parsed.n))

\* (*suffixHandler).interpret: the base and the exponent a suffix stands for
NoSuffix == [ok |-> FALSE, base |-> 10, exponent |-> 0]
interpret(suffix) ==
    CASE suffix = <<"K", "i">> -> [ok |-> TRUE, base |-> 2, exponent |-> 10]
      [] suffix = <<"M", "i">> -> [ok |-> TRUE, base |-> 2, exponent |-> 20]
      [] suffix = <<"G", "i">> -> [ok |-> TRUE, base |-> 2, exponent |-> 30]
      [] suffix = <<"T", "i">> -> [ok |-> TRUE, base |-> 2, exponent |-> 40]
      [] suffix = <<"P", "i">> -> [ok |-> TRUE, base |-> 2, exponent |-> 50]
      [] suffix = <<"E", "i">> -> [ok |-> TRUE, base |-> 2, exponent |-> 60]
      [] suffix = <<"n">> -> [ok |-> TRUE, base |-> 10, exponent |-> -9]
      [] suffix = <<"u">> -> [ok |-> TRUE, base |-> 10, exponent |-> -6]
      [] suffix = <<"m">> -> [ok |-> TRUE, base |-> 10, exponent |-> -3]
      [] suffix = <<>> -> [ok |-> TRUE, base |-> 10, exponent |-> 0]
      [] suffix = <<"k">> -> [ok |-> TRUE, base |-> 10, exponent |-> 3]
      [] suffix = <<"M">> -> [ok |-> TRUE, base |-> 10, exponent |-> 6]
      [] suffix = <<"G">> -> [ok |-> TRUE, base |-> 10, exponent |-> 9]
      [] suffix = <<"T">> -> [ok |-> TRUE, base |-> 10, exponent |-> 12]
      [] suffix = <<"P">> -> [ok |-> TRUE, base |-> 10, exponent |-> 15]
      [] suffix = <<"E">> -> [ok |-> TRUE, base |-> 10, exponent |-> 18]
      [] OTHER ->
            IF Len(suffix) > 1 /\ (suffix[1] = "E" \/ suffix[1] = "e")
            THEN LET parsed == ParseInt(Tail(suffix))
                 IN IF parsed.err THEN NoSuffix
                    ELSE [ok |-> TRUE, base |-> 10, exponent |-> Int32OfInt64(parsed)]
            ELSE NoSuffix

\* a divided by the n-th power of ten, rounded up
NatRoundUp(a, n) ==
    IF NatKeepLast(a, n) = <<>> THEN NatDropLast(a, n)
    ELSE NatAdd(NatDropLast(a, n), NatFromInt(1))

\* The precision ParseQuantity works out for a number of numLen digits before the
\* point and denomLen after it
QuantityPrecision(base, exponent, numLen, denomLen) ==
    IF base = 10 THEN MaxInt64Factors - (numLen + denomLen)
    ELSE IF exponent >= 0 /\ denomLen = 0 THEN 15 - numLen - (exponent * 3) \div 10 - 1
    ELSE -1

\* The scale ParseQuantity works out, the power of ten that the digits count
QuantityScale(base, exponent, denomLen) ==
    IF base = 10 THEN Int32Add(exponent, Int32Neg(denomLen)) ELSE 0 - denomLen

\* ParseQuantity where the number fits an int64: value times mantissa at the scale
ParseQuantityFast(positive, base, exponent, value, scale) ==
    QuantityParsed(Quantity(~positive,
                            IF base = 2 THEN NatShiftLeft(value, exponent) ELSE value,
                            Int32Neg(scale)))

\* maxAllowed
MaxAllowed == DecQuantity(FALSE, MaxInt64, 0, 0)

\* (*Dec).Round(amount, Nano.infScale(), inf.RoundUp) on an amount of unscaled
\* units of 10^(-scale) that is not below zero.  quoRem takes the shift to
\* billionths in int32: the amount is multiplied by 10^shift, or divided by
\* 10^(-shift) and raised by one where a remainder is left; exp10 of a negative
\* number indexes its table out of range and panics.
DecRoundUp(unscaled, scale) ==
    LET shift == Int32Sub(Nano, scale)
    IN IF shift >= 0 THEN QuantityParsed(DecQuantity(FALSE, unscaled, shift, Nano))
       ELSE IF Int32Neg(shift) < 0 THEN QuantityPanic
       ELSE QuantityParsed(DecQuantity(FALSE, NatRoundUp(unscaled, Int32Neg(shift)),
                                       0, Nano))

\* ParseQuantity on the amount it has rounded: one with a binary suffix that is
\* above maxAllowed is set to it, and the sign is put back
ParseQuantityCapped(positive, base, rounded) ==
    IF rounded.panic THEN QuantityPanic
    ELSE IF base = 2 /\ DecCmp(rounded.q, MaxAllowed).panic THEN QuantityPanic
    ELSE IF base = 2 /\ DecCmp(rounded.q, MaxAllowed).cmp = 1
    THEN QuantityParsed(DecQuantity(~positive, MaxAllowed.n, 0, 0))
    ELSE QuantityParsed(DecQuantity(~positive, rounded.q.n, rounded.q.zeros,
                                    rounded.q.scale))

\* ParseQuantity on the inf.Dec amount of digits unscaled, which count units of
\* 10^(-scale): value must hold a digit; the amount is rounded up to billionths,
\* unless its unscaled value is 1, and one with a binary suffix is capped
ParseQuantityRounded(positive, digits, base, unscaled, scale) ==
    IF ~digits THEN QuantityError
    ELSE IF unscaled = NatFromInt(1)
    THEN ParseQuantityCapped(positive, base,
                             QuantityParsed(DecQuantity(FALSE, unscaled, 0, scale)))
    ELSE ParseQuantityCapped(positive, base, DecRoundUp(unscaled, scale))

\* ParseQuantity on the parts of the string and what its suffix stands for
ParseQuantitySuffixed(parts, base, exponent) ==
    IF /\ QuantityPrecision(base, exponent, Len(parts.num), Len(parts.denom)) >= 0
       /\ QuantityScale(base, exponent, Len(parts.denom)) >= 0 - Nano
    THEN ParseQuantityFast(parts.positive, base, exponent,
                           NatOfDigits(parts.num \o parts.denom),
                           QuantityScale(base, exponent, Len(parts.denom)))
    ELSE IF base = 2
    THEN ParseQuantityRounded(parts.positive, parts.digits, 2,
                              NatShiftLeft(NatOfDigits(parts.num \o parts.denom), exponent),
                              Len(parts.denom))
    ELSE ParseQuantityRounded(parts.positive, parts.digits, 10,
                              NatOfDigits(parts.num \o parts.denom),
                              Int32Add(Len(parts.denom), Int32Neg(exponent)))

\* ParseQuantity on the parts of the string
ParseQuantityParts(parts) ==
    IF parts.err \/ ~interpret(parts.suffix).ok THEN QuantityError
    ELSE ParseQuantitySuffixed(parts, interpret(parts.suffix).base,
                               interpret(parts.suffix).exponent)

\* resource.ParseQuantity
ParseQuantity(str) ==
    IF str = <<>> THEN QuantityError
    ELSE IF str = <<"0">> THEN QuantityParsed(Quantity(FALSE, <<>>, 0))
    ELSE ParseQuantityParts(parseQuantityString(str))

\* OnSessionOpen: the annotation key in use
AnnotationKeyOf(arguments) ==
    IF arguments.annotationKey.ok /\ arguments.annotationKey.val.isString
    THEN arguments.annotationKey.val.str
    ELSE DefaultAnnotationKey

\* What the parsing of the resource map gives: the quota table, or a panic of
\* the runtime
QuotaParsed(quota) == [panic |-> FALSE, quota |-> quota]
QuotaPanic == [panic |-> TRUE, quota |-> <<>>]

\* The quota table that is left empty as soon as one value of the resource map is
\* no string or does not parse
QuotaOfAllOrNothing(arguments) ==
    IF arguments.resourceMap.ok /\ arguments.resourceMap.val.isMap
    THEN LET resMap == arguments.resourceMap.val.entries
         IN IF \E k \in DOMAIN resMap :
                    resMap[k].isString /\ ParseQuantity(resMap[k].str).panic
            THEN QuotaPanic
            ELSE IF \A k \in DOMAIN resMap :
                        resMap[k].isString /\ ~ParseQuantity(resMap[k].str).err
            THEN QuotaParsed([k \in DOMAIN resMap |-> ParseQuantity(resMap[k].str).q])
            ELSE QuotaParsed(<<>>)
    ELSE QuotaParsed(<<>>)

\* OnSessionOpen: the quota table, holding the entries of the resource map whose
\* value is a string that parses as a quantity.  Every string of the map is
\* parsed, in whatever order the map is ranged over, so that a panic of
\* ParseQuantity on one of them leaves OnSessionOpen.
QuotaOf(arguments) ==
    IF arguments.resourceMap.ok /\ arguments.resourceMap.val.isMap
    THEN LET resMap == arguments.resourceMap.val.entries
             kept == {k \in DOMAIN resMap :
                        /\ resMap[k].isString
                        /\ ~ParseQuantity(resMap[k].str).err}
         IN IF \E k \in kept : ParseQuantity(resMap[k].str).panic
            THEN QuotaPanic
            ELSE QuotaParsed([k \in kept |-> ParseQuantity(resMap[k].str).q])
    ELSE QuotaParsed(<<>>)

\* api.Resource
Resource(milliCPU, memory, scalarResources) ==
    [MilliCPU |-> milliCPU, Memory |-> memory, ScalarResources |-> scalarResources]

\* (*Resource).IsEmpty
IsEmpty(res) ==
    /\ res.MilliCPU = 0
    /\ res.Memory = 0
    /\ \A n \in DOMAIN res.ScalarResources : res.ScalarResources[n] = 0

\* *PodGroup: nil, without annotations, or with annotations
NilPodGroup == [isNil |-> TRUE, nilAnnotations |-> TRUE, Annotations |-> <<>>]
PodGroupWithoutAnnotations ==
    [isNil |-> FALSE, nilAnnotations |-> TRUE, Annotations |-> <<>>]
PodGroup(annotations) ==
    [isNil |-> FALSE, nilAnnotations |-> FALSE, Annotations |-> annotations]

\* api.JobInfo with the attributes group-quota reads
QuotaJobInfo(uid, priority, podGroup, allocated) ==
    [UID |-> uid, Queue |-> 1, Priority |-> priority, Pending |-> FALSE,
     CreationTimestamp |-> 0, PodGroup |-> podGroup, Allocated |-> allocated]

\* isJobAllocated
isJobAllocated(job) == ~IsEmpty(job.Allocated)

\* getJobGroup
getJobGroup(job, key) ==
    IF job.PodGroup.isNil \/ job.PodGroup.nilAnnotations THEN ""
    ELSE IF key \in DOMAIN job.PodGroup.Annotations
    THEN job.PodGroup.Annotations[key]
    ELSE ""

\* list[name], which is the zero Quantity where the entry is missing, with q
\* added to it by (*Quantity).Add and stored back
AddQuantity(list, name, q) ==
    [n \in DOMAIN list \cup {name} |->
        IF n = name
        THEN QuantityAdd(IF n \in DOMAIN list THEN list[n] ELSE NewQuantity(0), q)
        ELSE list[n]]

\* The loop of addResourceList over the scalar resources still to add
RECURSIVE AddScalars(_, _, _)
AddScalars(list, res, names) ==
    IF names = {} THEN list
    ELSE LET name == CHOOSE n \in names : TRUE
         IN AddScalars(AddQuantity(list, name, NewQuantity(res.ScalarResources[name])),
                       res, names \ {name})

\* addResourceList
addResourceList(list, res) ==
    LET withCPU == IF res.MilliCPU > 0
                   THEN AddQuantity(list, "cpu", NewMilliQuantity(res.MilliCPU))
                   ELSE list
        withMemory == IF res.Memory > 0
                      THEN AddQuantity(withCPU, "memory", NewQuantity(res.Memory))
                      ELSE withCPU
    IN AddScalars(withMemory, res, DOMAIN res.ScalarResources)

\* What isOverQuota gives: true or false, or the panic of a comparison
OverQuotaResult(over) == [panic |-> FALSE, over |-> over]
OverQuotaPanic == [panic |-> TRUE, over |-> FALSE]

\* isOverQuota that takes usage equal to the limit to be under quota
RECURSIVE isOverQuotaStrict(_, _, _, _)
isOverQuotaStrict(usage, quota, order, i) ==
    IF i > Len(order) THEN OverQuotaResult(FALSE)
    ELSE IF order[i] \notin DOMAIN usage
    THEN isOverQuotaStrict(usage, quota, order, i + 1)
    ELSE LET cmp == QuantityCmp(usage[order[i]], quota[order[i]])
         IN IF cmp.panic THEN OverQuotaPanic
            ELSE IF cmp.cmp = 1 THEN OverQuotaResult(TRUE)
            ELSE isOverQuotaStrict(usage, quota, order, i + 1)

\* isOverQuota over the resources of quota from position i of the range order
\* on.  The panic of used.Cmp(limit) ends it.
RECURSIVE isOverQuota(_, _, _, _)
isOverQuota(usage, quota, order, i) ==
    IF i > Len(order) THEN OverQuotaResult(FALSE)
    ELSE IF order[i] \notin DOMAIN usage THEN isOverQuota(usage, quota, order, i + 1)
    ELSE LET cmp == QuantityCmp(usage[order[i]], quota[order[i]])
         IN IF cmp.panic THEN OverQuotaPanic
            ELSE IF cmp.cmp >= 0 THEN OverQuotaResult(TRUE)
            ELSE isOverQuota(usage, quota, order, i + 1)

\* The marking loop of OnSessionOpen over the groups from position i of the
\* range order groups on, isOverQuota ranging over quota in the order
\* quotaOrders has for the group
RECURSIVE MarkOverQuota(_, _, _, _, _, _)
MarkOverQuota(groupUsage, quota, groups, quotaOrders, i, overQuotaGroups) ==
    IF i > Len(groups)
    THEN [panic |-> FALSE, overQuotaGroups |-> overQuotaGroups]
    ELSE LET group == groups[i]
             over == isOverQuota(groupUsage[group], quota, quotaOrders[group], 1)
         IN IF over.panic THEN [panic |-> TRUE, overQuotaGroups |-> {}]
            ELSE MarkOverQuota(groupUsage, quota, groups, quotaOrders, i + 1,
                     IF over.over THEN overQuotaGroups \cup {group}
                     ELSE overQuotaGroups)

\* The accounting loop that keeps for each group the allocation of the last job
\* only
RECURSIVE AccountJobsLastJob(_, _, _, _, _)
AccountJobsLastJob(jobs, order, key, i, groupUsage) ==
    IF i > Len(order) THEN groupUsage
    ELSE LET job == jobs[order[i]]
         IN IF ~isJobAllocated(job)
            THEN AccountJobsLastJob(jobs, order, key, i + 1, groupUsage)
            ELSE IF job.PodGroup.isNil \/ job.PodGroup.nilAnnotations
            THEN AccountJobsLastJob(jobs, order, key, i + 1, groupUsage)
            ELSE IF key \notin DOMAIN job.PodGroup.Annotations
            THEN AccountJobsLastJob(jobs, order, key, i + 1, groupUsage)
            ELSE LET groupName == job.PodGroup.Annotations[key]
                 IN AccountJobsLastJob(jobs, order, key, i + 1,
                        [g \in DOMAIN groupUsage \cup {groupName} |->
                            IF g = groupName
                            THEN addResourceList(<<>>, job.Allocated)
                            ELSE groupUsage[g]])

\* The accounting loop of OnSessionOpen over the jobs from position i of the
\* range order on
RECURSIVE AccountJobs(_, _, _, _, _)
AccountJobs(jobs, order, key, i, groupUsage) ==
    IF i > Len(order) THEN groupUsage
    ELSE LET job == jobs[order[i]]
         IN IF ~isJobAllocated(job) THEN AccountJobs(jobs, order, key, i + 1, groupUsage)
            ELSE IF job.PodGroup.isNil \/ job.PodGroup.nilAnnotations
            THEN AccountJobs(jobs, order, key, i + 1, groupUsage)
            ELSE IF key \notin DOMAIN job.PodGroup.Annotations
            THEN AccountJobs(jobs, order, key, i + 1, groupUsage)
            ELSE LET groupName == job.PodGroup.Annotations[key]
                     usage == IF groupName \in DOMAIN groupUsage
                              THEN groupUsage[groupName] ELSE <<>>
                 IN AccountJobs(jobs, order, key, i + 1,
                        [g \in DOMAIN groupUsage \cup {groupName} |->
                            IF g = groupName
                            THEN addResourceList(usage, job.Allocated)
                            ELSE groupUsage[g]])

\* jobOrderFn of group-quota that orders jobs of equal standing by priority
GroupQuotaJobOrderFnThenPriority(gq, l, r) ==
    LET lOver == getJobGroup(l, gq.annotationKey) \in gq.overQuotaGroups
        rOver == getJobGroup(r, gq.annotationKey) \in gq.overQuotaGroups
    IN IF lOver /\ ~rOver THEN 1
       ELSE IF ~lOver /\ rOver THEN -1
       ELSE IF l.Priority > r.Priority THEN -1
       ELSE IF l.Priority < r.Priority THEN 1
       ELSE 0

\* jobOrderFn of group-quota
GroupQuotaJobOrderFn(gq, l, r) ==
    LET lOver == getJobGroup(l, gq.annotationKey) \in gq.overQuotaGroups
        rOver == getJobGroup(r, gq.annotationKey) \in gq.overQuotaGroups
    IN IF lOver /\ ~rOver THEN 1
       ELSE IF ~lOver /\ rOver THEN -1
       ELSE 0

\* The orders in which the marking loop of OnSessionOpen may range over
\* groupUsage and isOverQuota, for each group, over quota
MarkingOrders(groupUsage, quota) ==
    RangeOrders(groupUsage) \X [DOMAIN groupUsage -> RangeOrders(quota)]

\* (*groupquotaPlugin).OnSessionOpen.  Where ParseQuantity or isOverQuota panics
\* the panic leaves OnSessionOpen before ssn.AddJobOrderFn and goes on to the
\* host: nothing is registered and the session is never opened.
GroupQuotaOnSessionOpen ==
    /\ pc = "opening"
    /\ GroupQuota \in plugins \ opened
    /\ \E key \in {AnnotationKeyOf(groupquota.pluginArguments)},
           parsed \in {QuotaOf(groupquota.pluginArguments)},
           order \in RangeOrders(ssnJobs) :
        \E groupUsage \in {AccountJobs(ssnJobs, order, key, 1, <<>>)} :
        \E orders \in MarkingOrders(groupUsage, parsed.quota) :
            LET marked == MarkOverQuota(groupUsage, parsed.quota, orders[1], orders[2],
                                        1, {})
            IN IF parsed.panic \/ marked.panic
               THEN /\ pc' = "panicked"
                    /\ UNCHANGED <<groupquota, fns, opened, openOrder>>
               ELSE /\ groupquota' =
                        [groupquota EXCEPT
                            !.annotationKey = key,
                            !.quota = parsed.quota,
                            !.groupUsage = groupUsage,
                            !.overQuotaGroups = marked.overQuotaGroups]
                    /\ fns' = fns \cup {<<GroupQuota, "jobOrderFn">>}
                    /\ opened' = opened \cup {GroupQuota}
                    /\ openOrder' = Append(openOrder, GroupQuota)
                    /\ pc' = PcAfterOpen(opened')
    /\ UNCHANGED <<config, rules, ssnJobs, now, plugins, snapshot, ret, openedAt,
                   closedSessions>>

\* The host's allocate and evict actions change what a job of the session holds
HostChangeAllocated(id, allocated) ==
    /\ pc = "running"
    /\ ret = NoReturn
    /\ id \in DOMAIN ssnJobs
    /\ ssnJobs[id].Allocated # allocated
    /\ ssnJobs' = [ssnJobs EXCEPT ![id].Allocated = allocated]
    /\ UNCHANGED <<config, rules, now, pc, plugins, opened, fns, snapshot, ret,
                   openedAt, closedSessions, groupquota, openOrder>>

\* The host invokes a jobOrderFn of group-quota that accounts what the jobs hold
\* at the invocation
CallGroupQuotaJobOrderOnLiveUsage(l, r) ==
    /\ pc = "running"
    /\ ret = NoReturn
    /\ <<GroupQuota, "jobOrderFn">> \in fns
    /\ l \in DOMAIN ssnJobs
    /\ r \in DOMAIN ssnJobs
    /\ \E order \in RangeOrders(ssnJobs) :
        LET groupUsage ==
                AccountJobs(ssnJobs, order, groupquota.annotationKey, 1, <<>>)
            orders == CHOOSE o \in MarkingOrders(groupUsage, groupquota.quota) : TRUE
            live == [groupquota EXCEPT
                        !.overQuotaGroups =
                            MarkOverQuota(groupUsage, groupquota.quota, orders[1],
                                          orders[2], 1, {}).overQuotaGroups]
        IN ret' = [fn |-> "jobOrderFn", plugin |-> GroupQuota, l |-> l, r |-> r,
                   result |-> GroupQuotaJobOrderFn(live, ssnJobs[l], ssnJobs[r])]
    /\ UNCHANGED <<config, rules, ssnJobs, now, pc, plugins, opened, fns, snapshot,
                   openedAt, closedSessions, groupquota, openOrder>>

\* The host invokes the jobOrderFn of group-quota on two jobs of the session
CallGroupQuotaJobOrder(l, r) ==
    /\ pc = "running"
    /\ ret = NoReturn
    /\ <<GroupQuota, "jobOrderFn">> \in fns
    /\ l \in DOMAIN ssnJobs
    /\ r \in DOMAIN ssnJobs
    /\ ret' = [fn |-> "jobOrderFn", plugin |-> GroupQuota, l |-> l, r |-> r,
               result |-> GroupQuotaJobOrderFn(groupquota, ssnJobs[l], ssnJobs[r])]
    /\ UNCHANGED <<config, rules, ssnJobs, now, pc, plugins, opened, fns, snapshot,
                   openedAt, closedSessions, groupquota, openOrder>>

----------------------------------------------------------------------------
(* time-priority *)

\* RawRule, as the arguments carry it
RawRule(threshold, source, target) ==
    [WaitingThreshold |-> threshold, SourcePriority |-> source,
     TargetPriority |-> target]

\* EscalationRule, with the threshold parsed
EscalationRule(duration, source, target) ==
    [WaitingThreshold |-> duration, SourcePriority |-> source,
     TargetPriority |-> target]

\* The loop of parseArguments that stops at the first rule it rejects
RECURSIVE ParseRulesUntilInvalid(_, _, _)
ParseRulesUntilInvalid(raw, i, parsed) ==
    IF i > Len(raw) THEN parsed
    ELSE LET duration == ParseDuration(raw[i].WaitingThreshold)
         IN IF duration.err \/ DurationCmp(duration.d, ZeroDuration) <= 0
               \/ raw[i].SourcePriority.isNil
            THEN parsed
            ELSE ParseRulesUntilInvalid(raw, i + 1,
                    Append(parsed, EscalationRule(duration.d, raw[i].SourcePriority,
                                                  raw[i].TargetPriority)))

\* The loop of parseArguments over the raw rules from rule i on
RECURSIVE ParseRules(_, _, _)
ParseRules(raw, i, parsed) ==
    IF i > Len(raw) THEN parsed
    ELSE LET duration == ParseDuration(raw[i].WaitingThreshold)
         IN IF duration.err THEN ParseRules(raw, i + 1, parsed)
            ELSE IF DurationCmp(duration.d, ZeroDuration) <= 0
            THEN ParseRules(raw, i + 1, parsed)
            ELSE IF raw[i].SourcePriority.isNil THEN ParseRules(raw, i + 1, parsed)
            ELSE ParseRules(raw, i + 1,
                    Append(parsed, EscalationRule(duration.d, raw[i].SourcePriority,
                                                  raw[i].TargetPriority)))

\* The comparison that puts the rule of shorter threshold first
RuleLessAscending(a, b) == DurationCmp(a.WaitingThreshold, b.WaitingThreshold) = -1

\* The comparison handed to sort.Slice: rule a goes before rule b
RuleLess(a, b) == DurationCmp(a.WaitingThreshold, b.WaitingThreshold) = 1

(* sort.Slice, the pattern-defeating quicksort of package sort, on the rules and
   the comparison that parseArguments hands to it.  The elements are numbered from
   0 as in the package: data[i + 1] is element i.  A range a, b holds the elements
   a to b - 1. *)

\* lessSwap.Less
Less(data, i, j) == RuleLess(data[i + 1], data[j + 1])

\* lessSwap.Swap
Swap(data, i, j) == [data EXCEPT ![i + 1] = data[j + 1], ![j + 1] = data[i + 1]]

\* The inner loop of insertionSort_func: element j moves left, down to a at most,
\* while it is less than the one before it
RECURSIVE SinkLeft(_, _, _)
SinkLeft(data, a, j) ==
    IF j > a /\ Less(data, j, j - 1) THEN SinkLeft(Swap(data, j, j - 1), a, j - 1)
    ELSE data

\* The loop of insertionSort_func from element i on
RECURSIVE InsertionSort(_, _, _, _)
InsertionSort(data, a, b, i) ==
    IF i >= b \/ data = <<>> THEN data
    ELSE InsertionSort(SinkLeft(data, a, i), a, b, i + 1)

insertionSort_func(data, a, b) == InsertionSort(data, a, b, a + 1)

\* The greater child of root in the heap of hi elements that starts at first
HeapChild(data, root, hi, first) ==
    IF 2 * root + 2 < hi /\ Less(data, first + 2 * root + 1, first + 2 * root + 2)
    THEN 2 * root + 2
    ELSE 2 * root + 1

RECURSIVE siftDown_func(_, _, _, _)
siftDown_func(data, lo, hi, first) ==
    IF 2 * lo + 1 >= hi THEN data
    ELSE IF ~Less(data, first + lo, first + HeapChild(data, lo, hi, first)) THEN data
    ELSE siftDown_func(Swap(data, first + lo, first + HeapChild(data, lo, hi, first)),
                       HeapChild(data, lo, hi, first), hi, first)

\* The loop of heapSort_func that builds the heap, from i down
RECURSIVE HeapBuild(_, _, _, _)
HeapBuild(data, i, hi, first) ==
    IF i < 0 \/ data = <<>> THEN data
    ELSE HeapBuild(siftDown_func(data, i, hi, first), i - 1, hi, first)

\* The loop of heapSort_func that pops the greatest elements, from i down
RECURSIVE HeapPop(_, _, _)
HeapPop(data, i, first) ==
    IF i < 0 \/ data = <<>> THEN data
    ELSE HeapPop(siftDown_func(Swap(data, first, first + i), 0, i, first), i - 1, first)

heapSort_func(data, a, b) ==
    HeapPop(HeapBuild(data, (b - a - 1) \div 2, b - a, a), b - a - 1, a)

\* Element i goes to the left of the pivot, which is at a: it is less than the
\* pivot in partition_func, and not greater in partitionEqual_func
LeftOfPivot(data, a, i, equal) ==
    IF equal THEN ~Less(data, a, i) ELSE Less(data, i, a)

\* for i <= j && left(i) { i++ }: where the loop leaves i
ScanRight(data, a, i, j, equal) ==
    IF i > j THEN i
    ELSE CHOOSE k \in i..(j + 1) :
            /\ k > j \/ ~LeftOfPivot(data, a, k, equal)
            /\ \A m \in i..(k - 1) : LeftOfPivot(data, a, m, equal)

\* for i <= j && !left(j) { j-- }: where the loop leaves j
ScanLeft(data, a, i, j, equal) ==
    IF i > j THEN j
    ELSE CHOOSE k \in (i - 1)..j :
            /\ k < i \/ LeftOfPivot(data, a, k, equal)
            /\ \A m \in (k + 1)..j : ~LeftOfPivot(data, a, m, equal)

\* The loop of partition_func and partitionEqual_func: the two scans, and a swap
\* as long as they have not met
RECURSIVE PartitionLoop(_, _, _, _, _)
PartitionSwap(data, a, i, j, equal) ==
    IF i > j THEN [data |-> data, i |-> i, j |-> j]
    ELSE PartitionLoop(Swap(data, i, j), a, i + 1, j - 1, equal)

PartitionLoop(data, a, i, j, equal) ==
    PartitionSwap(data, a, ScanRight(data, a, i, j, equal),
                  ScanLeft(data, a, ScanRight(data, a, i, j, equal), j, equal), equal)

PartitionDone(p, a) == [data |-> Swap(p.data, p.j, a), mid |-> p.j, already |-> FALSE]

\* partition_func after its first two scans, which stopped at i and j
PartitionFirst(data, a, i, j) ==
    IF i > j THEN [data |-> Swap(data, j, a), mid |-> j, already |-> TRUE]
    ELSE PartitionDone(PartitionLoop(Swap(data, i, j), a, i + 1, j - 1, FALSE), a)

\* partition_func on the data with the pivot swapped to a
PartitionScan(data, a, b) ==
    PartitionFirst(data, a, ScanRight(data, a, a + 1, b - 1, FALSE),
                   ScanLeft(data, a, ScanRight(data, a, a + 1, b - 1, FALSE), b - 1, FALSE))

partition_func(data, a, b, pivot) == PartitionScan(Swap(data, a, pivot), a, b)

PartitionEqualDone(p) == [data |-> p.data, mid |-> p.i]

partitionEqual_func(data, a, b, pivot) ==
    PartitionEqualDone(PartitionLoop(Swap(data, a, pivot), a, a + 1, b - 1, TRUE))

\* for i < b && !less(i, i-1) { i++ }: where the loop leaves i
ScanOrdered(data, i, b) ==
    IF i >= b THEN i
    ELSE CHOOSE k \in i..b :
            /\ k = b \/ Less(data, k, k - 1)
            /\ \A m \in i..(k - 1) : ~Less(data, m, m - 1)

\* The loop of partialInsertionSort_func that shifts the greater one to the right
RECURSIVE ShiftRight(_, _, _)
ShiftRight(data, j, b) ==
    IF j < b /\ Less(data, j, j - 1) THEN ShiftRight(Swap(data, j, j - 1), j + 1, b)
    ELSE data

maxSteps == 5
shortestShifting == 50

\* One step of partialInsertionSort_func past the pair out of order at i
PartialShift(data, a, b, i) ==
    IF b - i >= 2
    THEN ShiftRight(IF i - a >= 2 THEN SinkLeft(Swap(data, i, i - 1), 0, i - 1)
                    ELSE Swap(data, i, i - 1), i + 1, b)
    ELSE IF i - a >= 2 THEN SinkLeft(Swap(data, i, i - 1), 0, i - 1)
    ELSE Swap(data, i, i - 1)

\* The loop of partialInsertionSort_func at step j
RECURSIVE PartialInsertionLoop(_, _, _, _, _)
PartialInsertionStep(data, a, b, i, j) ==
    IF i = b THEN [data |-> data, sorted |-> TRUE]
    ELSE IF b - a < shortestShifting THEN [data |-> data, sorted |-> FALSE]
    ELSE PartialInsertionLoop(PartialShift(data, a, b, i), a, b, i, j + 1)

PartialInsertionLoop(data, a, b, i, j) ==
    IF j >= maxSteps THEN [data |-> data, sorted |-> FALSE]
    ELSE PartialInsertionStep(data, a, b, ScanOrdered(data, i, b), j)

partialInsertionSort_func(data, a, b) == PartialInsertionLoop(data, a, b, a + 1, 0)

\* bits.Len
BitsLen(x) == CHOOSE n \in 0..30 : 2 ^ n > x /\ (n = 0 \/ 2 ^ (n - 1) <= x)

\* xorshift: a uint64 by its bits, bit k counting 2^k
Uint64Bits == 0..63

xorshift(length) == [k \in Uint64Bits |-> k < 31 /\ (length \div (2 ^ k)) % 2 = 1]

XorShiftLeft(r, s) == [k \in Uint64Bits |-> r[k] # (k >= s /\ r[k - s])]

XorShiftRight(r, s) == [k \in Uint64Bits |-> r[k] # (k + s <= 63 /\ r[k + s])]

\* (*xorshift).Next
XorshiftNext(r) == XorShiftLeft(XorShiftRight(XorShiftLeft(r, 13), 7), 17)

\* The number the bits of r below bit n count
RECURSIVE LowBits(_, _)
LowBits(r, n) ==
    IF n = 0 THEN 0 ELSE 2 * LowBits([k \in Uint64Bits |-> k < 63 /\ r[k + 1]], n - 1)
                         + (IF r[0] THEN 1 ELSE 0)

\* The element breakPatterns_func swaps with, random being what Next gave
BreakOther(random, length) ==
    IF LowBits(random, BitsLen(length)) >= length
    THEN LowBits(random, BitsLen(length)) - length
    ELSE LowBits(random, BitsLen(length))

\* The loop of breakPatterns_func at step i, random being the generator before it
RECURSIVE BreakLoop(_, _, _, _, _)
BreakLoop(data, a, b, random, i) ==
    IF i >= 3 \/ data = <<>> THEN data
    ELSE BreakLoop(Swap(data, a + ((b - a) \div 4) * 2 - 1 - 1 + i,
                        a + BreakOther(XorshiftNext(random), b - a)),
                   a, b, XorshiftNext(random), i + 1)

breakPatterns_func(data, a, b) ==
    IF b - a >= 8 THEN BreakLoop(data, a, b, xorshift(b - a), 0) ELSE data

\* order2_func
order2_func(data, a, b, swaps) ==
    IF Less(data, b, a) THEN [x |-> b, y |-> a, swaps |-> swaps + 1]
    ELSE [x |-> a, y |-> b, swaps |-> swaps]

MedianLast(first, last) == [i |-> last.y, swaps |-> last.swaps]

MedianSecond(data, first, second) ==
    MedianLast(first, order2_func(data, first.x, second.x, second.swaps))

MedianFirst(data, first, c) ==
    MedianSecond(data, first, order2_func(data, first.y, c, first.swaps))

\* median_func
median_func(data, a, b, c, swaps) == MedianFirst(data, order2_func(data, a, b, swaps), c)

\* medianAdjacent_func
medianAdjacent_func(data, a, swaps) == median_func(data, a - 1, a, a + 1, swaps)

shortestNinther == 50
maxSwaps == 4 * 3

\* The hint of choosePivot_func
PivotHint(m) ==
    [pivot |-> m.i,
     hint |-> IF m.swaps = 0 THEN "increasing"
              ELSE IF m.swaps = maxSwaps THEN "decreasing" ELSE "unknown"]

NintherLast(data, i, j, k) == median_func(data, i.i, j.i, k.i, k.swaps)

NintherSecond(data, i, j, k) == NintherLast(data, i, j, medianAdjacent_func(data, k, j.swaps))

NintherFirst(data, i, j, k) ==
    NintherSecond(data, i, medianAdjacent_func(data, j, i.swaps), k)

\* choosePivot_func
choosePivot_func(data, a, b) ==
    IF b - a >= shortestNinther
    THEN PivotHint(NintherFirst(data, medianAdjacent_func(data, a + (b - a) \div 4, 0),
                                a + ((b - a) \div 4) * 2, a + ((b - a) \div 4) * 3))
    ELSE IF b - a >= 8
    THEN PivotHint(median_func(data, a + (b - a) \div 4, a + ((b - a) \div 4) * 2,
                               a + ((b - a) \div 4) * 3, 0))
    ELSE PivotHint([i |-> a + ((b - a) \div 4) * 2, swaps |-> 0])

\* reverseRange_func
reverseRange_func(data, a, b) ==
    [k \in 1..Len(data) |-> IF a < k /\ k <= b THEN data[a + b + 1 - k] ELSE data[k]]

maxInsertion == 12

\* pdqsort_func, its loop being entered with the range a, b and the flags
\* wasBalanced and wasPartitioned
RECURSIVE PdqsortLoop(_, _, _, _, _, _)

pdqsort_func(data, a, b, limit) == PdqsortLoop(data, a, b, limit, TRUE, TRUE)

\* The end of the loop of pdqsort_func: the shorter side is sorted by a call, and
\* the loop goes on with the other side
PdqsortSides(p, a, b, limit) ==
    IF p.mid - a < b - p.mid
    THEN PdqsortLoop(pdqsort_func(p.data, a, p.mid, limit), p.mid + 1, b, limit,
                     p.mid - a >= (b - a) \div 8, p.already)
    ELSE PdqsortLoop(pdqsort_func(p.data, p.mid + 1, b, limit), a, p.mid, limit,
                     b - p.mid >= (b - a) \div 8, p.already)

PdqsortEqual(p, b, limit, wasBalanced, wasPartitioned) ==
    PdqsortLoop(p.data, p.mid, b, limit, wasBalanced, wasPartitioned)

\* The loop of pdqsort_func from the test for many equal elements on
PdqsortPartition(data, a, b, limit, wasBalanced, wasPartitioned, pivot) ==
    IF a > 0 /\ ~Less(data, a - 1, pivot)
    THEN PdqsortEqual(partitionEqual_func(data, a, b, pivot), b, limit,
                      wasBalanced, wasPartitioned)
    ELSE PdqsortSides(partition_func(data, a, b, pivot), a, b, limit)

PdqsortPartial(p, a, b, limit, wasBalanced, wasPartitioned, pivot) ==
    IF p.sorted THEN p.data
    ELSE PdqsortPartition(p.data, a, b, limit, wasBalanced, wasPartitioned, pivot)

\* The loop of pdqsort_func once the pivot is chosen and a decreasing range is
\* reversed
PdqsortHinted(data, a, b, limit, wasBalanced, wasPartitioned, pivot, increasing) ==
    IF wasBalanced /\ wasPartitioned /\ increasing
    THEN PdqsortPartial(partialInsertionSort_func(data, a, b), a, b, limit,
                        wasBalanced, wasPartitioned, pivot)
    ELSE PdqsortPartition(data, a, b, limit, wasBalanced, wasPartitioned, pivot)

PdqsortPivot(data, a, b, limit, wasBalanced, wasPartitioned, chosen) ==
    IF chosen.hint = "decreasing"
    THEN PdqsortHinted(reverseRange_func(data, a, b), a, b, limit, wasBalanced,
                       wasPartitioned, (b - 1) - (chosen.pivot - a), TRUE)
    ELSE PdqsortHinted(data, a, b, limit, wasBalanced, wasPartitioned, chosen.pivot,
                       chosen.hint = "increasing")

PdqsortBroken(data, a, b, limit, wasBalanced, wasPartitioned) ==
    PdqsortPivot(data, a, b, limit, wasBalanced, wasPartitioned,
                 choosePivot_func(data, a, b))

PdqsortLoop(data, a, b, limit, wasBalanced, wasPartitioned) ==
    IF b - a <= maxInsertion \/ data = <<>> THEN insertionSort_func(data, a, b)
    ELSE IF limit = 0 THEN heapSort_func(data, a, b)
    ELSE IF ~wasBalanced
    THEN PdqsortBroken(breakPatterns_func(data, a, b), a, b, limit - 1,
                       wasBalanced, wasPartitioned)
    ELSE PdqsortBroken(data, a, b, limit, wasBalanced, wasPartitioned)

\* sort.Slice
SortSlice(data) == pdqsort_func(data, 0, Len(data), BitsLen(Len(data)))

\* parseArguments that keeps the rules in the order of the arguments
TimePriorityParseArgumentsUnsorted(args) ==
    IF args.rules.ok THEN ParseRules(args.rules.val, 1, <<>>) ELSE <<>>

\* (*timePriorityPlugin).parseArguments
TimePriorityParseArguments(args) ==
    IF args.rules.ok
    THEN SortSlice(ParseRules(args.rules.val, 1, <<>>))
    ELSE <<>>

\* The arguments time-priority is built from in the exploration of its parsing
TimePriorityRawRules ==
    {RawRule(t, sel, target) :
        t \in {<<"1", "m">>, <<"2", "m">>, <<"1", ".", "5", "m">>,
               <<"9", "0", "0", "0", "0", "m", "s">>, <<"0", "s">>,
               <<"-", "1", "m">>, <<"s", "o", "o", "n">>},
        sel \in {NilSelector,
                 PrioritySelector(<<PriorityExpression(OperatorIn, <<0>>)>>),
                 PrioritySelector(<<>>)},
        target \in 0..MaxPriority}

\* Two lists of more rules than sort.Slice sorts by insertion, most of them of
\* one threshold: "1m", "2m" and eleven times "1m"; and "1m", "1m", "3m" and eleven
\* times "2m"
LongRuleSelector(i) ==
    IF (i \div 2) % 2 = 0
    THEN PrioritySelector(<<PriorityExpression(OperatorIn, <<0>>)>>)
    ELSE PrioritySelector(<<>>)

LongRuleLists ==
    {[i \in 1..(LongRules - 1) |->
        RawRule(IF i = 2 THEN <<"2", "m">> ELSE <<"1", "m">>,
                LongRuleSelector(i), i % (MaxPriority + 1))],
     [i \in 1..LongRules |->
        RawRule(IF i <= 2 THEN <<"1", "m">>
                ELSE IF i = 3 THEN <<"3", "m">> ELSE <<"2", "m">>,
                LongRuleSelector(i), i % (MaxPriority + 1))]}

TimePriorityArguments ==
    {[rules |-> NotGiven(<<>>)]}
    \cup {[rules |-> Given(l)] :
            l \in UNION {[1..n -> TimePriorityRawRules] : n \in 0..MaxRules}}
    \cup {[rules |-> Given(l)] : l \in LongRuleLists}

\* New of time-priority: the plugin is built from its arguments
TimePriorityNew ==
    /\ pc = "new"
    /\ ret = NoReturn
    /\ \E arguments \in TimePriorityArguments :
        /\ rules' = TimePriorityParseArguments(arguments)
        /\ ret' = [fn |-> "New", plugin |-> TimePriority, arguments |-> arguments]
    /\ pc' = "opening"
    /\ UNCHANGED <<config, ssnJobs, now, plugins, opened, fns, snapshot, openedAt,
                   closedSessions,
                   groupquota, openOrder>>

\* A nil *api.JobInfo
NilJobInfo == [isNil |-> TRUE]

\* getWaitingDuration that does not ask whether the creation timestamp is zero
getWaitingDurationSinceZero(job, time) ==
    IF job = NilJobInfo THEN ZeroDuration
    ELSE Milliseconds(time - job.CreationTimestamp)

\* getWaitingDuration
getWaitingDuration(job, time) ==
    IF job = NilJobInfo THEN ZeroDuration
    ELSE IF job.CreationTimestamp = 0 THEN ZeroDuration
    ELSE Milliseconds(time - job.CreationTimestamp)

\* A caller invokes getWaitingDuration on a job at the present instant
CallGetWaitingDuration(job) ==
    /\ ret = NoReturn
    /\ ret' = [fn |-> "getWaitingDuration", job |-> job, now |-> now,
               result |-> getWaitingDuration(job, now)]
    /\ UNCHANGED <<config, rules, ssnJobs, now, pc, plugins, opened, fns, snapshot,
                   openedAt, closedSessions, groupquota, openOrder>>

\* The rule loop of OnSessionOpen that goes on to the next rule after a rule has
\* fired
RECURSIVE EscalateLoopNoBreak(_, _, _, _, _)
EscalateLoopNoBreak(rs, job, waitingDuration, i, writes) ==
    IF i > Len(rs) THEN [job |-> job, writes |-> writes]
    ELSE IF DurationCmp(waitingDuration, rs[i].WaitingThreshold) >= 0
            /\ PrioritySelectorMatches(rs[i].SourcePriority, job.Priority)
    THEN EscalateLoopNoBreak(rs, [job EXCEPT !.Priority = rs[i].TargetPriority],
                             waitingDuration, i + 1, writes + 1)
    ELSE EscalateLoopNoBreak(rs, job, waitingDuration, i + 1, writes)

\* The rule loop of OnSessionOpen with the comparison of waiting duration and
\* threshold turned around
RECURSIVE EscalateLoopInverted(_, _, _, _, _)
EscalateLoopInverted(rs, job, waitingDuration, i, writes) ==
    IF i > Len(rs) THEN [job |-> job, writes |-> writes]
    ELSE IF DurationCmp(waitingDuration, rs[i].WaitingThreshold) <= 0
            /\ PrioritySelectorMatches(rs[i].SourcePriority, job.Priority)
    THEN [job |-> [job EXCEPT !.Priority = rs[i].TargetPriority],
          writes |-> writes + 1]
    ELSE EscalateLoopInverted(rs, job, waitingDuration, i + 1, writes)

\* The loop of OnSessionOpen over the rules from rule i on, for one job: the job
\* as the loop leaves it, and the number of assignments made to job.Priority
RECURSIVE EscalateLoop(_, _, _, _, _)
EscalateLoop(rs, job, waitingDuration, i, writes) ==
    IF i > Len(rs) THEN [job |-> job, writes |-> writes]
    ELSE IF DurationCmp(waitingDuration, rs[i].WaitingThreshold) >= 0
            /\ PrioritySelectorMatches(rs[i].SourcePriority, job.Priority)
    THEN [job |-> [job EXCEPT !.Priority = rs[i].TargetPriority],
          writes |-> writes + 1]
    ELSE EscalateLoop(rs, job, waitingDuration, i + 1, writes)

\* The rule loop that gives the tasks of an escalated job the priority of the job
EscalateWithTasks(rs, job, waitingDuration, i) ==
    LET left == EscalateLoop(rs, job, waitingDuration, i, 0)
    IN IF left.writes = 0 THEN left.job
       ELSE [left.job EXCEPT
                !.Tasks = [a \in DOMAIN @ |->
                            [@[a] EXCEPT !.Priority = left.job.Priority]]]

\* The job as the rule loop leaves it
Escalate(rs, job, waitingDuration, i) ==
    EscalateLoop(rs, job, waitingDuration, i, 0).job

\* The loop of OnSessionOpen that stops at the first job it escalates
RECURSIVE EscalateJobsUntilEscalated(_, _, _, _, _)
EscalateJobsUntilEscalated(rs, jobs, order, i, time) ==
    IF i > Len(order) THEN jobs
    ELSE LET id == order[i]
             job == Escalate(rs, jobs[id], getWaitingDuration(jobs[id], time), 1)
         IN IF job # jobs[id] THEN [jobs EXCEPT ![id] = job]
            ELSE EscalateJobsUntilEscalated(rs, jobs, order, i + 1, time)

\* The loop of OnSessionOpen over the jobs from position i of the range order on
RECURSIVE EscalateJobs(_, _, _, _, _)
EscalateJobs(rs, jobs, order, i, time) ==
    IF i > Len(order) THEN jobs
    ELSE LET id == order[i]
             job == Escalate(rs, jobs[id], getWaitingDuration(jobs[id], time), 1)
         IN EscalateJobs(rs, [jobs EXCEPT ![id] = job], order, i + 1, time)

\* The number of assignments the rule loop makes to the priority of each job
PriorityWrites(rs, jobs, time) ==
    [id \in DOMAIN jobs |->
        IF Len(rs) = 0 THEN 0
        ELSE EscalateLoop(rs, jobs[id], getWaitingDuration(jobs[id], time), 1, 0).writes]

\* OnSessionOpen that escalates copies of the jobs and leaves the jobs of the
\* session as they were
TimePriorityOnSessionOpenOnCopies ==
    /\ pc = "opening"
    /\ TimePriority \in plugins \ opened
    /\ opened' = opened \cup {TimePriority}
    /\ openOrder' = Append(openOrder, TimePriority)
    /\ pc' = PcAfterOpen(opened')
    /\ ret' = [fn |-> "OnSessionOpen", plugin |-> TimePriority, now |-> now,
               writes |-> PriorityWrites(rules, ssnJobs, now)]
    /\ openedAt' = now
    /\ UNCHANGED <<config, rules, ssnJobs, now, plugins, fns, snapshot,
                   closedSessions,
                   groupquota>>

\* (*timePriorityPlugin).OnSessionOpen
TimePriorityOnSessionOpen ==
    /\ pc = "opening"
    /\ TimePriority \in plugins \ opened
    /\ \E order \in RangeOrders(ssnJobs) :
        ssnJobs' = IF Len(rules) = 0 THEN ssnJobs
                   ELSE EscalateJobs(rules, ssnJobs, order, 1, now)
    /\ opened' = opened \cup {TimePriority}
    /\ openOrder' = Append(openOrder, TimePriority)
    /\ pc' = PcAfterOpen(opened')
    /\ ret' = [fn |-> "OnSessionOpen", plugin |-> TimePriority, now |-> now,
               writes |-> PriorityWrites(rules, ssnJobs, now)]
    /\ openedAt' = now
    /\ UNCHANGED <<config, rules, now, plugins, fns, snapshot, closedSessions,
                   groupquota>>

----------------------------------------------------------------------------
(* Head-of-line blocking: the sessions and configurations explored *)

\* All job maps over subsets of JobIDs whose job of id i is one of JobsOf(i)
Sessions(JobsOf(_)) ==
    UNION {{f \in [S -> UNION {JobsOf(i) : i \in S}] : \A i \in S : f[i] \in JobsOf(i)}
           : S \in SUBSET JobIDs}

BlockingJobs(id) ==
    {JobInfo(id, q, p, pend, 0) : q \in Queues, p \in Priorities, pend \in BOOLEAN}

Gte(v) == PrioritySelector(<<PriorityExpression(OperatorGte, <<v>>)>>)
In(v) == PrioritySelector(<<PriorityExpression(OperatorIn, <<v>>)>>)
EmptySelector == PrioritySelector(<<>>)

NoArguments ==
    [sortOrder |-> NotGiven(<<>>),
     preemptible |-> NotGiven(NilSelector),
     reclaimable |-> NotGiven(NilSelector),
     blocking |-> NotGiven(NilSelector),
     blockingScope |-> NotGiven(""),
     maxRunTimeAnnotationKey |-> NotGiven("")]

BlockingArguments ==
    {[NoArguments EXCEPT !.blocking = b, !.blockingScope = s] :
        b \in {NotGiven(NilSelector), Given(Gte(1)), Given(Gte(0)), Given(In(0)),
               Given(EmptySelector)},
        s \in {NotGiven(""), Given(BlockingScopeCluster), Given(BlockingScopeQueue),
               Given("node")}}

InitBlocking ==
    /\ \E args \in BlockingArguments : config = ExPriorityParseArguments(args)
    /\ rules = <<>>
    /\ ssnJobs \in Sessions(BlockingJobs)
    /\ snapshot = ssnJobs
    /\ now = Minute
    /\ pc = "opening"
    /\ plugins = {ExPriority}
    /\ opened = {}
    /\ openOrder = <<>>
    /\ fns = {}
    /\ ret = NoReturn
    /\ openedAt = 0
    /\ closedSessions = <<>>
    /\ groupquota = GroupQuotaNew(NoQuotaArguments)

NextBlocking ==
    \/ ExPriorityOnSessionOpen
    \/ \E id \in JobIDs : \E order \in RangeOrders(ssnJobs) : CallJobEnqueueable(id, order)
    \/ \E id \in JobIDs : \E order \in RangeOrders(ssnJobs) : CallJobValid(id, order)
    \/ \E id \in JobIDs : HostEnqueueJob(id)
    \/ HostTakeResult

SpecBlocking == InitBlocking /\ [][NextBlocking]_vars

----------------------------------------------------------------------------
(* Head-of-line blocking: properties *)

BlockingConfigured == ~config.Blocking.isNil

\* H is a job of the session, other than J, that is pending, matches the blocking
\* selector, has strictly greater priority than J and is in J's scope
BlocksInScope(jobs, h, j) ==
    /\ h \in DOMAIN jobs
    /\ h # j
    /\ jobs[h].Pending
    /\ PrioritySelectorMatches(config.Blocking, jobs[h].Priority)
    /\ jobs[h].Priority > jobs[j].Priority
    /\ (config.BlockingScope = BlockingScopeQueue => jobs[h].Queue = jobs[j].Queue)

Failed(result) == ~result.isNil /\ ~result.Pass

\* C1: with blocking configured, jobEnqueueableFn(J) is Permit if J's priority
\* matches the blocking selector; otherwise Reject if some other pending job of the
\* session matches the selector, has strictly greater priority and (queue scope) is
\* in J's queue; otherwise Abstain.
C1_EnqueueableThreeWay ==
    (BlockingConfigured /\ ret.fn = "jobEnqueueableFn") =>
        ret.result =
            IF PrioritySelectorMatches(config.Blocking, ssnJobs[ret.job].Priority)
            THEN Permit
            ELSE IF \E h \in JobIDs : BlocksInScope(ssnJobs, h, ret.job)
            THEN Reject
            ELSE Abstain

C1_Witness ==
    /\ BlockingConfigured
    /\ ret.fn = "jobEnqueueableFn"
    /\ ret.result = Reject
    /\ \E h \in JobIDs : BlocksInScope(ssnJobs, h, ret.job)

\* C2 as stated: whenever a pending job H matching the blocking selector with
\* strictly greater priority is in J's scope, jobEnqueueableFn(J) is Reject and
\* jobValidFn(J) does not pass, for every job J.
C2_EveryLowerJobBlocked ==
    (BlockingConfigured /\ ret.fn \in {"jobEnqueueableFn", "jobValidFn"}
        /\ \E h \in JobIDs : BlocksInScope(ssnJobs, h, ret.job)) =>
        /\ ret.fn = "jobEnqueueableFn" => ret.result = Reject
        /\ ret.fn = "jobValidFn" => Failed(ret.result)

\* C2 amended: the same for every job J whose own priority does not match the
\* blocking selector.
C2_NonBlockingLowerJobBlocked ==
    (BlockingConfigured /\ ret.fn \in {"jobEnqueueableFn", "jobValidFn"}
        /\ ~PrioritySelectorMatches(config.Blocking, ssnJobs[ret.job].Priority)
        /\ \E h \in JobIDs : BlocksInScope(ssnJobs, h, ret.job)) =>
        /\ ret.fn = "jobEnqueueableFn" => ret.result = Reject
        /\ ret.fn = "jobValidFn" => Failed(ret.result)

C2_Witness ==
    /\ BlockingConfigured
    /\ ret.fn = "jobValidFn"
    /\ Failed(ret.result)
    /\ ~PrioritySelectorMatches(config.Blocking, ssnJobs[ret.job].Priority)
    /\ \E h \in JobIDs : BlocksInScope(ssnJobs, h, ret.job)

\* C4: jobValidFn(J) returns pass=false with reason "blocked by higher priority
\* job" exactly when J's priority does not match the blocking selector and a
\* higher-priority pending blocking job is in J's scope, and nil otherwise; it fails
\* J if and only if jobEnqueueableFn rejects J.
C4_ValidFailsIffBlocked ==
    (BlockingConfigured /\ ret.fn = "jobValidFn") =>
        LET blocked ==
                /\ ~PrioritySelectorMatches(config.Blocking, ssnJobs[ret.job].Priority)
                /\ \E h \in JobIDs : BlocksInScope(ssnJobs, h, ret.job)
        IN /\ blocked => /\ ~ret.result.isNil
                         /\ ret.result.Pass = FALSE
                         /\ ret.result.Reason = "blocked by higher priority job"
                         /\ ret.result.Message[2] = config.BlockingScope
           /\ ~blocked => ret.result.isNil
           /\ \A order \in RangeOrders(ssnJobs) :
                Failed(ret.result) <=>
                    jobEnqueueableFn(config, ssnJobs, order, ssnJobs[ret.job]) = Reject

C4_Witness ==
    /\ BlockingConfigured
    /\ ret.fn = "jobValidFn"
    /\ ~ret.result.isNil
    /\ ret.result.Reason = "blocked by higher priority job"
    /\ config.BlockingScope = BlockingScopeCluster

----------------------------------------------------------------------------
(* Preemption and reclaim: the sessions, configurations and tasks explored *)

MaxRunTimeKey == "max-run-time"

PreemptJobs(id) == {JobInfo(id, 1, p, FALSE, 0) : p \in Priorities}

\* Pods started at the first minute, without and with a max-run-time of "1m"
PlainPod == Pod(<<>>, MetaTime(Minute))
LimitedPod == Pod(MaxRunTimeKey :> <<"1", "m">>, MetaTime(Minute))

Actors == {TaskInfo(j, p, PlainPod) : j \in JobIDs, p \in TaskPriorities}

Candidates ==
    {TaskInfo(j, p, pod) : j \in JobIDs, p \in TaskPriorities,
                           pod \in {PlainPod, LimitedPod}}

CandidateLists == UNION {[1..n -> Candidates] : n \in 0..MaxCandidates}

VictimSelectors == {NotGiven(NilSelector), Given(In(0)), Given(EmptySelector)}

PreemptArguments ==
    {[NoArguments EXCEPT !.preemptible = p, !.reclaimable = r,
                         !.maxRunTimeAnnotationKey = k] :
        p \in VictimSelectors, r \in VictimSelectors,
        k \in {NotGiven(""), Given(MaxRunTimeKey)}}

InitPreempt ==
    /\ \E args \in PreemptArguments : config = ExPriorityParseArguments(args)
    /\ rules = <<>>
    /\ ssnJobs \in Sessions(PreemptJobs)
    /\ snapshot = ssnJobs
    /\ now = Minute
    /\ pc = "opening"
    /\ plugins = {ExPriority}
    /\ opened = {}
    /\ openOrder = <<>>
    /\ fns = {}
    /\ ret = NoReturn
    /\ openedAt = 0
    /\ closedSessions = <<>>
    /\ groupquota = GroupQuotaNew(NoQuotaArguments)

NextPreempt ==
    \/ ExPriorityOnSessionOpen
    \/ \E t \in Actors : \E l \in CandidateLists : CallPreemptable(t, l)
    \/ \E t \in Actors : \E l \in CandidateLists : CallReclaimable(t, l)
    \/ Tick
    \/ HostTakeResult

SpecPreempt == InitPreempt /\ [][NextPreempt]_vars

----------------------------------------------------------------------------
(* Preemption and reclaim: properties *)

VictimCall == ret.fn \in {"preemptableFn", "reclaimableFn"}

\* The selector that gates the callback that returned
GateOf(fn) == IF fn = "preemptableFn" THEN config.Preemptible ELSE config.Reclaimable

Count(seq, x) == Cardinality({i \in DOMAIN seq : seq[i] = x})
Elems(seq) == {seq[i] : i \in DOMAIN seq}

\* A run of duration d that started at the instant start is over at the instant
\* t: start plus d is not later than t
RunIsOver(start, d, t) == start = 0 \/ DurationCmp(d, Milliseconds(t - start)) <= 0

\* v carries the configured annotation with a positive duration that has run out
TimedOut(v) ==
    /\ config.MaxRunTimeAnnotationKey # ""
    /\ ~v.Pod.isNil
    /\ config.MaxRunTimeAnnotationKey \in DOMAIN v.Pod.Annotations
    /\ ~v.Pod.StartTime.isNil
    /\ LET d == ParseDuration(v.Pod.Annotations[config.MaxRunTimeAnnotationKey])
       IN /\ ~d.err
          /\ DurationCmp(d.d, ZeroDuration) = 1
          /\ RunIsOver(v.Pod.StartTime.Time, d.d, now)

\* v passes the gate of selector sel
PassesGate(sel, v) ==
    sel.isNil \/ (v.Job \in DOMAIN ssnJobs
                  /\ PrioritySelectorMatches(sel, ssnJobs[v.Job].Priority))

\* The priority rule: lower job priority across jobs, lower task priority within
LowerThan(v, t) ==
    /\ v.Job \in DOMAIN ssnJobs
    /\ t.Job \in DOMAIN ssnJobs
    /\ \/ v.Job # t.Job /\ ssnJobs[v.Job].Priority < ssnJobs[t.Job].Priority
       \/ v.Job = t.Job /\ v.Priority < t.Priority

\* C5: for every actor and every candidate list the callbacks return Permit with
\* victims that are candidates, none more often than given, and each victim is
\* timed out or passes the gate and has strictly lower priority.
C5_VictimsAreEligibleCandidates ==
    VictimCall =>
        /\ ret.result.status = Permit
        /\ \A v \in Elems(ret.result.victims) :
            /\ Count(ret.result.victims, v) <= Count(ret.candidates, v)
            /\ \/ TimedOut(v)
               \/ PassesGate(GateOf(ret.fn), v) /\ LowerThan(v, ret.actor)

\* C6: a timed-out candidate is always among the victims.
C6_TimedOutAlwaysVictim ==
    VictimCall =>
        \A v \in Elems(ret.candidates) :
            TimedOut(v) => v \in Elems(ret.result.victims)

MatchAll == PrioritySelector(<<PriorityExpression(OperatorNotIn, <<>>)>>)

\* C7: with the preemptible selector set, every victim of preemptableFn is timed
\* out or has a job priority that matches it, so a selector without expressions
\* leaves only timed-out victims; with the selector not set the gate excludes
\* nobody: the result is that of a selector matching every priority.
C7_SelectorGate ==
    ret.fn = "preemptableFn" =>
        /\ ~config.Preemptible.isNil =>
            \A v \in Elems(ret.result.victims) :
                \/ TimedOut(v)
                \/ /\ v.Job \in DOMAIN ssnJobs
                   /\ PrioritySelectorMatches(config.Preemptible, ssnJobs[v.Job].Priority)
        /\ (~config.Preemptible.isNil /\ Len(config.Preemptible.AnyExpressions) = 0) =>
            \A v \in Elems(ret.result.victims) : TimedOut(v)
        /\ config.Preemptible.isNil =>
            ret.result = preemptableFn([config EXCEPT !.Preemptible = MatchAll],
                                       ssnJobs, now, ret.actor, ret.candidates)

\* A candidate of strictly lower priority is kept out by the gate alone, while
\* another one is returned
C7_Witness ==
    /\ ret.fn = "preemptableFn"
    /\ ~config.Preemptible.isNil
    /\ ret.result.status = Permit
    /\ Len(ret.result.victims) > 0
    /\ \E v \in Elems(ret.candidates) :
        /\ ~TimedOut(v)
        /\ LowerThan(v, ret.actor)
        /\ ~PrioritySelectorMatches(config.Preemptible, ssnJobs[v.Job].Priority)
        /\ v \notin Elems(ret.result.victims)

\* C8: a candidate that is not timed out and passes the gate is a victim if and
\* only if it has strictly lower job priority than the actor (different jobs) or
\* strictly lower task priority (same job).
C8_PriorityRule ==
    VictimCall =>
        \A v \in Elems(ret.candidates) :
            (~TimedOut(v) /\ PassesGate(GateOf(ret.fn), v)) =>
                (v \in Elems(ret.result.victims) <=> LowerThan(v, ret.actor))

\* C9: reclaimableFn under reclaimable=S returns what preemptableFn returns under
\* preemptible=S for the same actor, candidates, jobs and now, whatever the other
\* selector is.
C9_ReclaimIsPreemptWithReclaimable ==
    /\ ret.fn = "preemptableFn" =>
        \A other \in {a.val : a \in VictimSelectors} :
            /\ reclaimableFn([config EXCEPT !.Reclaimable = config.Preemptible,
                                            !.Preemptible = other],
                             ssnJobs, now, ret.actor, ret.candidates) = ret.result
            /\ preemptableFn([config EXCEPT !.Reclaimable = other],
                             ssnJobs, now, ret.actor, ret.candidates) = ret.result
    /\ ret.fn = "reclaimableFn" =>
        \A other \in {a.val : a \in VictimSelectors} :
            /\ preemptableFn([config EXCEPT !.Preemptible = config.Reclaimable,
                                            !.Reclaimable = other],
                             ssnJobs, now, ret.actor, ret.candidates) = ret.result
            /\ reclaimableFn([config EXCEPT !.Preemptible = other],
                             ssnJobs, now, ret.actor, ret.candidates) = ret.result

\* reclaimableFn returned a victim that the preemptible selector would have kept out
C9_Witness ==
    /\ ret.fn = "reclaimableFn"
    /\ ret.result.status = Permit
    /\ ~config.Preemptible.isNil
    /\ \E v \in Elems(ret.result.victims) :
        /\ ~TimedOut(v)
        /\ ~PrioritySelectorMatches(config.Preemptible, ssnJobs[v.Job].Priority)

----------------------------------------------------------------------------
(* Escalation: the sessions and rules explored *)

TimeJobs(id) ==
    {JobInfo(id, 1, p, pend, created) :
        p \in Priorities, pend \in BOOLEAN, created \in {0, Minute}}

Lte(v) == PrioritySelector(<<PriorityExpression(OperatorLte, <<v>>)>>)

\* The targets of the rules explored: the priorities of the jobs and one above
TargetPriorities == 0..(MaxPriority + 1)

RawRules ==
    {RawRule(t, sel, target) :
        t \in {<<"1", "m">>, <<"1", ".", "5", "m">>, <<"0", "s">>,
               <<"s", "o", "o", "n">>},
        sel \in {NilSelector, In(0), Lte(1), EmptySelector},
        target \in TargetPriorities}

TimeArguments ==
    {[rules |-> NotGiven(<<>>)]}
    \cup {[rules |-> Given(l)] : l \in UNION {[1..n -> RawRules] : n \in 0..MaxRules}}

InitTime ==
    /\ config = ExPriorityParseArguments(NoArguments)
    /\ \E args \in TimeArguments : rules = TimePriorityParseArguments(args)
    /\ ssnJobs \in Sessions(TimeJobs)
    /\ snapshot = ssnJobs
    /\ now = Minute
    /\ pc = "opening"
    /\ plugins = {TimePriority}
    /\ opened = {}
    /\ openOrder = <<>>
    /\ fns = {}
    /\ ret = NoReturn
    /\ openedAt = 0
    /\ closedSessions = <<>>
    /\ groupquota = GroupQuotaNew(NoQuotaArguments)

NextTime ==
    \/ TimePriorityOnSessionOpen
    \/ Tick
    \/ HostTakeResult
    \/ HostNextSession

SpecTime == InitTime /\ [][NextTime]_vars

----------------------------------------------------------------------------
(* Escalation: properties *)

TimePriorityOpened == ret.fn = "OnSessionOpen" /\ ret.plugin = TimePriority

\* How long the job has waited at instant t; a job without creation timestamp has
\* not waited
Waited(job, t) ==
    IF job.CreationTimestamp = 0 THEN ZeroDuration
    ELSE Milliseconds(t - job.CreationTimestamp)

\* The rules that qualify for the job as the session was handed it
Qualifying(job, t) ==
    {i \in DOMAIN rules :
        /\ DurationCmp(rules[i].WaitingThreshold, Waited(job, t)) <= 0
        /\ PrioritySelectorMatches(rules[i].SourcePriority, job.Priority)}

\* C10: at session open every job, whatever its phase, gets the target of the
\* qualifying rule of greatest threshold, a rule qualifying when its threshold is at
\* most the waiting duration and its source selector matches the priority the job
\* had before; with no qualifying rule the priority is unchanged.
C10_LongestQualifyingRuleApplies ==
    TimePriorityOpened =>
        \A id \in DOMAIN ssnJobs :
            LET q == Qualifying(snapshot[id], ret.now)
            IN IF q = {}
               THEN ssnJobs[id].Priority = snapshot[id].Priority
               ELSE \E i \in q :
                    /\ \A k \in q : DurationCmp(rules[k].WaitingThreshold,
                                                rules[i].WaitingThreshold) <= 0
                    /\ ssnJobs[id].Priority = rules[i].TargetPriority

\* A job for which two rules of different thresholds and targets qualify has the
\* target of the longer one
C10_Witness ==
    /\ TimePriorityOpened
    /\ \E id \in DOMAIN ssnJobs :
        \E i, k \in Qualifying(snapshot[id], ret.now) :
            /\ DurationCmp(rules[i].WaitingThreshold, rules[k].WaitingThreshold) = 1
            /\ rules[i].TargetPriority # rules[k].TargetPriority
            /\ rules[i].TargetPriority # snapshot[id].Priority
            /\ ssnJobs[id].Priority = rules[i].TargetPriority

\* The first rule, in the stored order, that qualifies for the job
FirstQualifying(job, t) ==
    CHOOSE i \in Qualifying(job, t) : \A k \in Qualifying(job, t) : i <= k

\* C11: during one OnSessionOpen of time-priority the priority of each job is
\* written at most once: it is written exactly when a rule qualifies for the
\* priority the job had before, and it is then the target of the first such rule,
\* also when that target matches the source selector of a later rule whose
\* threshold is met.
C11_AtMostOneEscalation ==
    TimePriorityOpened =>
        \A id \in DOMAIN ssnJobs :
            LET q == Qualifying(snapshot[id], ret.now)
            IN /\ ret.writes[id] <= 1
               /\ ret.writes[id] = 1 <=> q # {}
               /\ q # {} =>
                    ssnJobs[id].Priority =
                        rules[FirstQualifying(snapshot[id], ret.now)].TargetPriority
               /\ q = {} => ssnJobs[id].Priority = snapshot[id].Priority

\* A job was escalated to a target that a later rule, whose threshold is met too,
\* would have rewritten to another priority
C11_Witness ==
    /\ TimePriorityOpened
    /\ \E id \in DOMAIN ssnJobs :
        /\ Qualifying(snapshot[id], ret.now) # {}
        /\ LET i == FirstQualifying(snapshot[id], ret.now)
           IN /\ ssnJobs[id].Priority = rules[i].TargetPriority
              /\ ssnJobs[id].Priority # snapshot[id].Priority
              /\ \E k \in DOMAIN rules :
                    /\ k > i
                    /\ DurationCmp(rules[k].WaitingThreshold,
                                   Waited(snapshot[id], ret.now)) <= 0
                    /\ PrioritySelectorMatches(rules[k].SourcePriority,
                                               rules[i].TargetPriority)
                    /\ rules[k].TargetPriority # rules[i].TargetPriority

\* The session closed last, when time-priority has opened a later one
PreviousSession == closedSessions[Len(closedSessions)]

SecondSessionOpened == TimePriorityOpened /\ closedSessions # <<>>

\* C12 as stated: across two successive sessions with the same rules and now1 <=
\* now2, the priority time-priority leaves on a job in the second session is never
\* lower than the one it left on the job in the first.
C12_PriorityNonDecreasing ==
    (SecondSessionOpened /\ PreviousSession.openedAt <= ret.now) =>
        \A id \in DOMAIN ssnJobs :
            ssnJobs[id].Priority >= PreviousSession.jobs[id].Priority

\* No rule lowers a priority its source selector matches
RulesNeverLower ==
    \A i \in DOMAIN rules : \A p \in TargetPriorities :
        PrioritySelectorMatches(rules[i].SourcePriority, p) =>
            rules[i].TargetPriority >= p

\* No rule of a longer threshold has a lower target than a rule of a shorter one
LongerRulesNotLower ==
    \A i, k \in DOMAIN rules :
        DurationCmp(rules[i].WaitingThreshold, rules[k].WaitingThreshold) = 1 =>
            rules[i].TargetPriority >= rules[k].TargetPriority

\* C12 amended: the same, provided every rule's target is at least every priority
\* its source selector matches and no rule with a longer threshold has a lower
\* target than a rule with a shorter threshold.
C12_NonDecreasingUnderRaisingRules ==
    (SecondSessionOpened /\ PreviousSession.openedAt <= ret.now
        /\ RulesNeverLower /\ LongerRulesNotLower) =>
        \A id \in DOMAIN ssnJobs :
            ssnJobs[id].Priority >= PreviousSession.jobs[id].Priority

\* A job that the first session escalated by a shorter rule is escalated by a
\* longer rule in the second, later session
C12_Witness ==
    /\ SecondSessionOpened
    /\ PreviousSession.openedAt < ret.now
    /\ RulesNeverLower
    /\ LongerRulesNotLower
    /\ \E id \in DOMAIN ssnJobs :
        /\ PreviousSession.jobs[id].Priority > PreviousSession.before[id].Priority
        /\ Qualifying(PreviousSession.before[id], PreviousSession.openedAt) # {}
        /\ Qualifying(snapshot[id], ret.now) # {}
        /\ FirstQualifying(snapshot[id], ret.now)
            # FirstQualifying(PreviousSession.before[id], PreviousSession.openedAt)
        /\ snapshot[id] = PreviousSession.before[id]

\* The pass of time-priority has been applied a second time, with the same now, to
\* the priorities its first application produced, and the first application had
\* left no job at its original priority
SecondPassOverEscalatedJobs ==
    /\ SecondSessionOpened
    /\ ret.now = PreviousSession.openedAt
    /\ snapshot = PreviousSession.jobs
    /\ \A id \in DOMAIN snapshot :
        PreviousSession.jobs[id].Priority # PreviousSession.before[id].Priority

\* C13 as stated: a second application of the session-open pass with the same now
\* changes no job's priority when the first left no job at its original priority.
C13_IdempotentWhenAllEscalated ==
    SecondPassOverEscalatedJobs =>
        \A id \in DOMAIN ssnJobs : ssnJobs[id].Priority = snapshot[id].Priority

\* Some expression of the selector matches the priority
SelectorAccepts(sel, p) ==
    \E e \in {sel.AnyExpressions[i] : i \in DOMAIN sel.AnyExpressions} :
        PriorityExpressionMatches(e, p)

\* No rule's target is a priority that the source selector of a rule matches
NoTargetFeedsARule ==
    \A i, k \in DOMAIN rules :
        ~SelectorAccepts(rules[k].SourcePriority, rules[i].TargetPriority)

\* C13 amended: the same, provided no rule's targetPriority matches the source
\* selector of any rule.
C13_IdempotentWhenTargetsLeaveSources ==
    (SecondPassOverEscalatedJobs /\ NoTargetFeedsARule) =>
        \A id \in DOMAIN ssnJobs : ssnJobs[id].Priority = snapshot[id].Priority

\* The second pass ran over a job the first pass had escalated, with a rule whose
\* threshold the job still meets
C13_Witness ==
    /\ SecondPassOverEscalatedJobs
    /\ NoTargetFeedsARule
    /\ \E id \in DOMAIN ssnJobs :
        /\ Qualifying(PreviousSession.before[id], ret.now) # {}
        /\ ssnJobs[id].Priority = snapshot[id].Priority

----------------------------------------------------------------------------
(* Rule parsing: exploration and properties *)

InitParse ==
    /\ config = ExPriorityParseArguments(NoArguments)
    /\ rules = <<>>
    /\ ssnJobs \in Sessions(TimeJobs)
    /\ snapshot = ssnJobs
    /\ now = Minute
    /\ pc = "new"
    /\ plugins = {TimePriority}
    /\ opened = {}
    /\ openOrder = <<>>
    /\ fns = {}
    /\ ret = NoReturn
    /\ openedAt = 0
    /\ closedSessions = <<>>
    /\ groupquota = GroupQuotaNew(NoQuotaArguments)

NextParse ==
    \/ TimePriorityNew
    \/ HostTakeResult
    \/ TimePriorityOnSessionOpen

SpecParse == InitParse /\ [][NextParse]_vars

TimePriorityBuilt == ret.fn = "New" /\ ret.plugin = TimePriority

\* The raw rules the arguments carry
RawRulesGiven == IF ret.arguments.rules.ok THEN ret.arguments.rules.val ELSE <<>>

\* A raw rule is valid when its threshold parses as a positive duration and its
\* source selector is present
ValidRawRule(r) ==
    /\ ~ParseDuration(r.WaitingThreshold).err
    /\ DurationCmp(ParseDuration(r.WaitingThreshold).d, ZeroDuration) = 1
    /\ ~r.SourcePriority.isNil

\* The rule a valid raw rule becomes
KeptAs(r) ==
    EscalationRule(ParseDuration(r.WaitingThreshold).d, r.SourcePriority,
                   r.TargetPriority)

\* C15: the rules kept are exactly the valid raw rules, each as often as it was
\* given and with its threshold, selector and target: a raw rule is dropped if and
\* only if its threshold does not parse, is zero or negative, or its source selector
\* is absent, whatever other rules the list holds.
C15_ExactlyValidRulesKept ==
    TimePriorityBuilt =>
        LET raw == RawRulesGiven
            valid == {i \in DOMAIN raw : ValidRawRule(raw[i])}
        IN /\ Len(rules) = Cardinality(valid)
           /\ \A i \in valid :
                Cardinality({k \in DOMAIN rules : rules[k] = KeptAs(raw[i])})
                = Cardinality({k \in valid : KeptAs(raw[k]) = KeptAs(raw[i])})

\* A valid rule is kept although an invalid rule precedes it in the list
C15_Witness ==
    /\ TimePriorityBuilt
    /\ Len(RawRulesGiven) = 2
    /\ ~ValidRawRule(RawRulesGiven[1])
    /\ ValidRawRule(RawRulesGiven[2])
    /\ rules = <<KeptAs(RawRulesGiven[2])>>

----------------------------------------------------------------------------
(* Ordering: exploration and properties *)

OrderTimes == {0, Minute, 2 * Minute}

\* The start times of the pods: none, the zero time and the times of OrderTimes
OrderStartTimes == {NilTime} \cup {MetaTime(t) : t \in OrderTimes}

OrderJobs(id) ==
    {JobInfo(id, 1, p, TRUE, created) : p \in Priorities, created \in OrderTimes}

OrderTasks ==
    {TaskInfo(1, p, pod) :
        p \in TaskPriorities,
        pod \in {NilPod} \cup {PodCreatedAt(st, ct) : st \in OrderStartTimes,
                                                     ct \in OrderTimes}}

OrderSubJobs == {SubJobInfo(uid, p) : uid \in JobIDs, p \in Priorities}

SortOrders ==
    {NotGiven(<<>>), Given(<<>>),
     Given(<<SortByPriority>>), Given(<<SortByCreationTime>>),
     Given(<<SortByPriority, SortByCreationTime>>),
     Given(<<SortByCreationTime, SortByPriority>>),
     Given(<<"name", SortByPriority>>)}

InitOrder ==
    /\ \E o \in SortOrders :
        config = ExPriorityParseArguments([NoArguments EXCEPT !.sortOrder = o])
    /\ rules = <<>>
    /\ ssnJobs \in Sessions(OrderJobs)
    /\ snapshot = ssnJobs
    /\ now = Minute
    /\ pc = "opening"
    /\ plugins = {ExPriority}
    /\ opened = {}
    /\ openOrder = <<>>
    /\ fns = {}
    /\ ret = NoReturn
    /\ openedAt = 0
    /\ closedSessions = <<>>
    /\ groupquota = GroupQuotaNew(NoQuotaArguments)

NextOrder ==
    \/ ExPriorityOnSessionOpen
    \/ \E l, r \in OrderTasks : CallTaskOrder(l, r)
    \/ \E l, r \in JobIDs : CallJobOrder(l, r)
    \/ \E l, r \in OrderSubJobs : CallSubJobOrder(l, r)
    \/ HostTakeResult

SpecOrder == InitOrder /\ [][NextOrder]_vars

OrderCall == ret.fn \in {"taskOrderFn", "jobOrderFn", "subJobOrderFn"}

\* -1 when the left of two priorities is the higher, 1 when it is the lower
HigherFirst(lp, rp) == IF lp > rp THEN -1 ELSE IF lp < rp THEN 1 ELSE 0

\* -1 when the left of two timestamps is the earlier, 1 when it is the later; a
\* missing timestamp does not distinguish
EarlierFirst(lt, rt) ==
    IF lt = 0 \/ rt = 0 THEN 0 ELSE IF lt < rt THEN -1 ELSE IF lt > rt THEN 1 ELSE 0

\* The timestamp of a task: the start time of its pod, else its creation time
TaskTimestamp(t) ==
    IF t.Pod.isNil THEN 0
    ELSE IF ~t.Pod.StartTime.isNil THEN t.Pod.StartTime.Time
    ELSE t.Pod.CreationTimestamp

\* What one key of the sort order says about the pair the callback was given
KeyOutcome(key) ==
    IF key = SortByPriority
    THEN IF ret.fn = "jobOrderFn"
         THEN HigherFirst(ssnJobs[ret.l].Priority, ssnJobs[ret.r].Priority)
         ELSE HigherFirst(ret.l.Priority, ret.r.Priority)
    ELSE IF key = SortByCreationTime
    THEN IF ret.fn = "jobOrderFn"
         THEN EarlierFirst(ssnJobs[ret.l].CreationTimestamp,
                           ssnJobs[ret.r].CreationTimestamp)
         ELSE IF ret.fn = "taskOrderFn"
         THEN EarlierFirst(TaskTimestamp(ret.l), TaskTimestamp(ret.r))
         ELSE 0
    ELSE 0

\* The keys of the sort order that distinguish the pair
Distinguishing ==
    {i \in DOMAIN config.SortOrder : KeyOutcome(config.SortOrder[i]) # 0}

\* C20: task, job and sub-job comparisons return what the first key of sortOrder
\* that distinguishes the pair says, and 0 when no key does; the key priority puts
\* the higher priority first; for sub-jobs the key creationTime says nothing.
C20_LexicographicOrder ==
    OrderCall =>
        IF Distinguishing = {} THEN ret.result = 0
        ELSE \E i \in Distinguishing :
                /\ \A k \in Distinguishing : i <= k
                /\ ret.result = KeyOutcome(config.SortOrder[i])

\* Two jobs that creationTime and priority order in opposite ways are ordered by
\* the key that comes first
C20_Witness ==
    /\ ret.fn = "jobOrderFn"
    /\ config.SortOrder = <<SortByCreationTime, SortByPriority>>
    /\ KeyOutcome(SortByCreationTime) = -1
    /\ KeyOutcome(SortByPriority) = 1
    /\ ret.result = -1

----------------------------------------------------------------------------
(* Escalation seen by ex-priority: exploration and properties *)

EscalatedJobsOf(id) ==
    {JobInfo(id, 1, p, pend, created) :
        p \in Priorities, pend \in BOOLEAN, created \in {0, Minute}}

EscalationRules ==
    {<<>>,
     <<RawRule(<<"1", "m">>, In(0), 1)>>,
     <<RawRule(<<"1", "m">>, In(1), 0)>>,
     <<RawRule(<<"2", "m">>, In(0), 1), RawRule(<<"1", "m">>, In(1), 0)>>}

EscalatedArguments ==
    {[NoArguments EXCEPT !.blocking = b, !.preemptible = p, !.reclaimable = r] :
        b \in {NotGiven(NilSelector), Given(Gte(1))},
        p \in {NotGiven(NilSelector), Given(In(0))},
        r \in {NotGiven(NilSelector), Given(In(0))}}

EscalatedTasks == {TaskInfo(j, p, PlainPod) : j \in JobIDs, p \in TaskPriorities}

EscalatedCandidateLists == {<<>>} \cup {<<t>> : t \in EscalatedTasks}

InitEscalated ==
    /\ \E args \in EscalatedArguments : config = ExPriorityParseArguments(args)
    /\ \E l \in EscalationRules :
        rules = TimePriorityParseArguments([rules |-> Given(l)])
    /\ ssnJobs \in Sessions(EscalatedJobsOf)
    /\ snapshot = ssnJobs
    /\ now = Minute
    /\ pc = "opening"
    /\ plugins = {TimePriority, ExPriority}
    /\ opened = {}
    /\ openOrder = <<>>
    /\ fns = {}
    /\ ret = NoReturn
    /\ openedAt = 0
    /\ closedSessions = <<>>
    /\ groupquota = GroupQuotaNew(NoQuotaArguments)

NextEscalated ==
    \/ TimePriorityOnSessionOpen
    \/ ExPriorityOnSessionOpen
    \/ Tick
    \/ HostTakeResult
    \/ \E id \in JobIDs : \E order \in RangeOrders(ssnJobs) :
            CallJobEnqueueable(id, order)
    \/ \E id \in JobIDs : \E order \in RangeOrders(ssnJobs) : CallJobValid(id, order)
    \/ \E l, r \in JobIDs : CallJobOrder(l, r)
    \/ \E t \in EscalatedTasks : \E l \in EscalatedCandidateLists :
            CallPreemptable(t, l)
    \/ \E t \in EscalatedTasks : \E l \in EscalatedCandidateLists :
            CallReclaimable(t, l)

SpecEscalated == InitEscalated /\ [][NextEscalated]_vars

\* The priority a job of the session has once time-priority has opened it: the
\* target of the first rule that qualified for the priority the host handed over
EscalatedPriority(id) ==
    IF Qualifying(snapshot[id], openedAt) = {} THEN snapshot[id].Priority
    ELSE rules[FirstQualifying(snapshot[id], openedAt)].TargetPriority

EscalatedJobs ==
    [id \in DOMAIN snapshot |->
        [snapshot[id] EXCEPT !.Priority = EscalatedPriority(id)]]

\* Candidate v is below actor t by the priority rule, on the escalated priorities
LowerThanEscalated(v, t) ==
    \/ v.Job # t.Job /\ EscalatedPriority(v.Job) < EscalatedPriority(t.Job)
    \/ v.Job = t.Job /\ v.Priority < t.Priority

\* C14: once time-priority has opened the session, every ex-priority callback
\* answers from the escalated priorities: the blocking test of jobEnqueueableFn and
\* jobValidFn, the job order, and the selector gate and the job-priority comparison
\* of preemptableFn and reclaimableFn.
C14_CallbacksSeeEscalatedPriority ==
    (pc = "running" /\ TimePriority \in opened /\ ret # NoReturn) =>
        /\ ret.fn = "jobEnqueueableFn" =>
            ret.result =
                IF PrioritySelectorMatches(config.Blocking,
                                           EscalatedPriority(ret.job))
                THEN Permit
                ELSE IF \E h \in JobIDs : BlocksInScope(EscalatedJobs, h, ret.job)
                THEN Reject
                ELSE Abstain
        /\ ret.fn = "jobValidFn" =>
            (Failed(ret.result) <=>
                /\ ~PrioritySelectorMatches(config.Blocking,
                                            EscalatedPriority(ret.job))
                /\ \E h \in JobIDs : BlocksInScope(EscalatedJobs, h, ret.job))
        /\ ret.fn = "jobOrderFn" =>
            ret.result = HigherFirst(EscalatedPriority(ret.l),
                                     EscalatedPriority(ret.r))
        /\ (VictimCall /\ ret.result.status = Permit) =>
            \A v \in Elems(ret.candidates) :
                v \in Elems(ret.result.victims) <=>
                    /\ GateOf(ret.fn).isNil
                       \/ PrioritySelectorMatches(GateOf(ret.fn),
                                                  EscalatedPriority(v.Job))
                    /\ LowerThanEscalated(v, ret.actor)

\* A job is rejected because of a pending job that only its escalation has made a
\* blocking job of higher priority
C14_Witness ==
    /\ pc = "running"
    /\ TimePriority \in opened
    /\ ret.fn = "jobEnqueueableFn"
    /\ ret.result = Reject
    /\ \E h \in JobIDs :
        /\ BlocksInScope(EscalatedJobs, h, ret.job)
        /\ ~PrioritySelectorMatches(config.Blocking, snapshot[h].Priority)
        /\ ~BlocksInScope(snapshot, h, ret.job)

----------------------------------------------------------------------------
(* Group quota: exploration and properties *)

TeamKey == "team"

QuotaPodGroups ==
    {NilPodGroup, PodGroupWithoutAnnotations,
     PodGroup(DefaultAnnotationKey :> "a"),
     PodGroup(DefaultAnnotationKey :> "b"),
     PodGroup(DefaultAnnotationKey :> ""),
     PodGroup(TeamKey :> "a")}

NoScalars == [n \in {} |-> 0]

QuotaAllocations ==
    {Resource(0, 0, NoScalars), Resource(1000, 0, NoScalars),
     Resource(2000, 0, NoScalars), Resource(1000, 0, "gpu" :> 1),
     Resource(0, 1024, NoScalars)}

QuotaJobs(id) ==
    {QuotaJobInfo(id, p, g, a) :
        p \in Priorities, g \in QuotaPodGroups, a \in QuotaAllocations}

\* The limits 1e2147483645 and 1e2147483647, whose scales are 2^31 places or
\* more above the thousandths that the usage of cpu is counted in
LimitE2147483645 ==
    QuantityString(<<"1", "e", "2", "1", "4", "7", "4", "8", "3", "6", "4", "5">>)
LimitE2147483647 ==
    QuantityString(<<"1", "e", "2", "1", "4", "7", "4", "8", "3", "6", "4", "7">>)

\* The limit 15e-2147483648, which rounding takes to one billionth, and a limit
\* of 19 digits with the exponent 2147483639, on which rounding panics
Limit15EMinus2147483648 ==
    QuantityString(<<"1", "5", "e", "-", "2", "1", "4", "7", "4", "8", "3", "6", "4", "8">>)
Limit19DigitsE2147483639 ==
    QuantityString(<<"1", "2", "3", "4", "5", "6", "7", "8", "9", "0",
                     "1", "2", "3", "4", "5", "6", "7", "8", "9",
                     "e", "2", "1", "4", "7", "4", "8", "3", "6", "3", "9">>)

ResourceMaps ==
    {NotGiven(NotAMap), Given(NotAMap),
     Given(ResourceMap("cpu" :> QuantityString(<<"2">>))),
     Given(ResourceMap("cpu" :> QuantityString(<<"1", ".", "5">>))),
     Given(ResourceMap(("cpu" :> QuantityString(<<"1", "0", "0", "0", "m">>))
                       @@ ("gpu" :> QuantityString(<<"1">>)))),
     Given(ResourceMap(("cpu" :> QuantityString(<<"x">>))
                       @@ ("memory" :> QuantityString(<<"1", "K", "i">>)))),
     Given(ResourceMap(("cpu" :> NotAString) @@ ("gpu" :> QuantityString(<<"2">>)))),
     Given(ResourceMap("cpu" :> LimitE2147483645)),
     Given(ResourceMap(("cpu" :> LimitE2147483647) @@ ("gpu" :> QuantityString(<<"1">>)))),
     Given(ResourceMap("cpu" :> Limit15EMinus2147483648)),
     Given(ResourceMap(("cpu" :> QuantityString(<<"2">>))
                       @@ ("memory" :> Limit19DigitsE2147483639)))}

QuotaArguments ==
    {[annotationKey |-> k, resourceMap |-> m] :
        k \in {NotGiven(OtherValue), Given(StringValue(TeamKey)), Given(OtherValue)},
        m \in ResourceMaps}

InitQuota ==
    /\ config = ExPriorityParseArguments(NoArguments)
    /\ rules = <<>>
    /\ ssnJobs \in Sessions(QuotaJobs)
    /\ snapshot = ssnJobs
    /\ now = Minute
    /\ pc = "opening"
    /\ plugins = {GroupQuota}
    /\ opened = {}
    /\ openOrder = <<>>
    /\ fns = {}
    /\ ret = NoReturn
    /\ openedAt = 0
    /\ closedSessions = <<>>
    /\ \E arguments \in QuotaArguments : groupquota = GroupQuotaNew(arguments)

NextQuota ==
    \/ GroupQuotaOnSessionOpen
    \/ \E l, r \in JobIDs : CallGroupQuotaJobOrder(l, r)
    \/ HostTakeResult

SpecQuota == InitQuota /\ [][NextQuota]_vars

GroupQuotaOpened == GroupQuota \in opened

QuotaOrderCall == ret.fn = "jobOrderFn" /\ ret.plugin = GroupQuota

\* The job carries the group annotation
HasGroup(job) ==
    /\ ~job.PodGroup.isNil
    /\ ~job.PodGroup.nilAnnotations
    /\ groupquota.annotationKey \in DOMAIN job.PodGroup.Annotations

\* The group the annotation of the job names
GroupOf(job) == job.PodGroup.Annotations[groupquota.annotationKey]

\* The job belongs to a group that is marked over quota
InOverQuotaGroup(job) ==
    HasGroup(job) /\ GroupOf(job) \in groupquota.overQuotaGroups

\* C16: the comparator returns -1 when the group of L is under quota and that of R
\* over, 1 when the group of L is over and that of R under, and 0 otherwise.
C16_ComparatorPrefersUnderQuota ==
    QuotaOrderCall =>
        ret.result =
            IF ~InOverQuotaGroup(ssnJobs[ret.l]) /\ InOverQuotaGroup(ssnJobs[ret.r])
            THEN -1
            ELSE IF InOverQuotaGroup(ssnJobs[ret.l])
                    /\ ~InOverQuotaGroup(ssnJobs[ret.r])
            THEN 1
            ELSE 0

\* C17: the comparator never treats a job without the group annotation as over
\* quota: against such a job a job of an over-quota group loses and every other
\* job ties.
C17_UnannotatedNeverOverQuota ==
    QuotaOrderCall =>
        /\ ~HasGroup(ssnJobs[ret.l]) =>
            ret.result = IF InOverQuotaGroup(ssnJobs[ret.r]) THEN -1 ELSE 0
        /\ ~HasGroup(ssnJobs[ret.r]) =>
            ret.result = IF InOverQuotaGroup(ssnJobs[ret.l]) THEN 1 ELSE 0

\* The groups the annotations of the session's jobs name
GroupNames ==
    {GroupOf(ssnJobs[id]) : id \in {i \in DOMAIN ssnJobs : HasGroup(ssnJobs[i])}}

\* The jobs that hold resources and carry the annotation naming group g
Members(g) ==
    {id \in DOMAIN ssnJobs :
        /\ HasGroup(ssnJobs[id])
        /\ GroupOf(ssnJobs[id]) = g
        /\ ~IsEmpty(ssnJobs[id].Allocated)}

\* The job holds some of the named resource
Uses(job, name) ==
    IF name = "cpu" THEN job.Allocated.MilliCPU > 0
    ELSE IF name = "memory" THEN job.Allocated.Memory > 0
    ELSE name \in DOMAIN job.Allocated.ScalarResources

\* What the job holds of the named resource, in thousandths
Amount(job, name) ==
    IF ~Uses(job, name) THEN 0
    ELSE IF name = "cpu" THEN job.Allocated.MilliCPU
    ELSE IF name = "memory" THEN job.Allocated.Memory * 1000
    ELSE job.Allocated.ScalarResources[name] * 1000

RECURSIVE TotalAmount(_, _)
TotalAmount(ids, name) ==
    IF ids = {} THEN 0
    ELSE LET id == CHOOSE j \in ids : TRUE
         IN Amount(ssnJobs[id], name) + TotalAmount(ids \ {id}, name)

\* The named resource is present in the usage of group g
GroupUses(g, name) == \E id \in Members(g) : Uses(ssnJobs[id], name)

\* Usage of millis thousandths, which is not below zero, is at or above the
\* limit q
MeetsLimit(millis, q) ==
    IF q.neg \/ q.n = <<>> THEN TRUE
    ELSE IF millis = 0 THEN FALSE
    ELSE LET used == NatFromInt(millis)
             places == Len(q.n) - Len(used) + 3
             power == q.scale - q.zeros
         IN IF power > places THEN TRUE
            ELSE IF power < places THEN FALSE
            ELSE NatCmp(NatShift(used, IF power > 3 THEN power - 3 ELSE 0),
                        NatShift(q.n, IF power < 3 THEN 3 - power ELSE 0)) >= 0

\* C18: a group is marked over quota exactly when some resource of the quota
\* table that the group uses has usage at or above its limit.
C18_OverQuotaIffUsageMeetsLimit ==
    GroupQuotaOpened =>
        \A g \in GroupNames \cup groupquota.overQuotaGroups :
            g \in groupquota.overQuotaGroups
                <=> \E name \in DOMAIN groupquota.quota :
                        /\ GroupUses(g, name)
                        /\ MeetsLimit(TotalAmount(Members(g), name),
                                      groupquota.quota[name])

\* A group is marked over quota with its usage equal to the limit in every quota
\* resource it uses, while it also uses a resource the quota table lacks
C18_Witness ==
    /\ GroupQuotaOpened
    /\ \E g \in groupquota.overQuotaGroups :
        /\ \A name \in DOMAIN groupquota.quota :
                GroupUses(g, name) =>
                    /\ MeetsLimit(TotalAmount(Members(g), name),
                                  groupquota.quota[name])
                    /\ ~MeetsLimit(TotalAmount(Members(g), name) - 1,
                                   groupquota.quota[name])
        /\ \E name \in {"cpu", "memory", "gpu"} \ DOMAIN groupquota.quota :
                GroupUses(g, name)
        /\ \E name \in DOMAIN groupquota.quota : ~GroupUses(g, name)

\* The callbacks group-quota has registered with the session
GroupQuotaRegistered == {f \in fns : f[1] = GroupQuota}

\* C19: group-quota registers only a job-order comparator, leaves every field of
\* every job as it was, and its comparator gives the same result whatever the
\* priorities of the two jobs are.
C19_PureOrderingHint ==
    /\ GroupQuotaRegistered \subseteq {<<GroupQuota, "jobOrderFn">>}
    /\ GroupQuotaOpened => GroupQuotaRegistered = {<<GroupQuota, "jobOrderFn">>}
    /\ ssnJobs = snapshot
    /\ QuotaOrderCall =>
        \A p, q \in Priorities :
            GroupQuotaJobOrderFn(groupquota,
                                 [ssnJobs[ret.l] EXCEPT !.Priority = p],
                                 [ssnJobs[ret.r] EXCEPT !.Priority = q])
                = ret.result

\* The comparator puts a job of lower priority first because the group of the
\* job of higher priority is over quota
C19_Witness ==
    /\ GroupQuotaOpened
    /\ QuotaOrderCall
    /\ ssnJobs[ret.l].Priority > ssnJobs[ret.r].Priority
    /\ ret.result = 1

----------------------------------------------------------------------------
(* Comparators: exploration and properties *)

CompareTimes == {0, Minute, 2 * Minute}

ComparePodGroups == {NilPodGroup, PodGroup(DefaultAnnotationKey :> "a")}

CompareAllocations == {Resource(0, 0, NoScalars), Resource(1000, 0, NoScalars)}

CompareJobs(id) ==
    {[QuotaJobInfo(id, p, g, a) EXCEPT !.CreationTimestamp = created] :
        p \in Priorities, created \in CompareTimes,
        g \in ComparePodGroups, a \in CompareAllocations}

CompareTasks ==
    {TaskInfo(1, p, pod) :
        p \in TaskPriorities,
        pod \in {NilPod} \cup
                {PodCreatedAt(st, ct) : st \in {NilTime, MetaTime(0), MetaTime(Minute)},
                                        ct \in {0, 2 * Minute}}}

CompareQuotaArguments ==
    {NoQuotaArguments,
     [NoQuotaArguments EXCEPT
        !.resourceMap = Given(ResourceMap("cpu" :> QuantityString(<<"1">>)))],
     [NoQuotaArguments EXCEPT
        !.resourceMap = Given(ResourceMap("cpu" :> LimitE2147483645))]}

InitCompare ==
    /\ \E o \in SortOrders :
        config = ExPriorityParseArguments([NoArguments EXCEPT !.sortOrder = o])
    /\ rules = <<>>
    /\ ssnJobs \in Sessions(CompareJobs)
    /\ snapshot = ssnJobs
    /\ now = Minute
    /\ pc = "opening"
    /\ plugins = {ExPriority, GroupQuota}
    /\ opened = {}
    /\ openOrder = <<>>
    /\ fns = {}
    /\ ret = NoReturn
    /\ openedAt = 0
    /\ closedSessions = <<>>
    /\ \E arguments \in CompareQuotaArguments : groupquota = GroupQuotaNew(arguments)

NextCompare ==
    \/ ExPriorityOnSessionOpen
    \/ GroupQuotaOnSessionOpen
    \/ \E l, r \in CompareTasks : CallTaskOrder(l, r)
    \/ \E l, r \in JobIDs : CallJobOrder(l, r)
    \/ \E l, r \in OrderSubJobs : CallSubJobOrder(l, r)
    \/ \E l, r \in JobIDs : CallGroupQuotaJobOrder(l, r)
    \/ HostTakeResult

SpecCompare == InitCompare /\ [][NextCompare]_vars

Sign(n) == IF n < 0 THEN -1 ELSE IF n > 0 THEN 1 ELSE 0

\* What the comparator that produced ret returns for its two arguments in the
\* other order
Reversed ==
    IF ret.fn = "taskOrderFn" THEN compareTasks(config, ret.r, ret.l)
    ELSE IF ret.fn = "subJobOrderFn" THEN compareSubJobs(config, ret.r, ret.l)
    ELSE IF ret.plugin = ExPriority
    THEN compareJobs(config, ssnJobs[ret.r], ssnJobs[ret.l])
    ELSE GroupQuotaJobOrderFn(groupquota, ssnJobs[ret.r], ssnJobs[ret.l])

\* C21: each comparator of ex-priority and the comparator of group-quota gives
\* opposite signs for a pair and the reversed pair, and 0 for an object against
\* itself.
C21_ComparatorsAntisymmetric ==
    OrderCall =>
        /\ Sign(ret.result) = -Sign(Reversed)
        /\ ret.l = ret.r => ret.result = 0

\* The task comparator has put the earlier of two tasks first, and puts it second
\* when the two are given in the other order
C21_Witness ==
    /\ OrderCall
    /\ ret.fn = "taskOrderFn"
    /\ ret.result = -1
    /\ Reversed = 1
    /\ getTaskCreationTime(ret.l) # 0
    /\ getTaskCreationTime(ret.l) < getTaskCreationTime(ret.r)

\* The objects a comparator of ex-priority may be given besides the pair of ret
Thirds ==
    IF ret.fn = "taskOrderFn" THEN OrderTasks
    ELSE IF ret.fn = "subJobOrderFn" THEN OrderSubJobs
    ELSE OrderJobs(1)

\* The left and the right object of the pair of ret
LeftOf == IF ret.fn = "jobOrderFn" THEN ssnJobs[ret.l] ELSE ret.l
RightOf == IF ret.fn = "jobOrderFn" THEN ssnJobs[ret.r] ELSE ret.r

\* The comparator that produced ret, applied to two objects
Compare(a, b) ==
    IF ret.fn = "taskOrderFn" THEN compareTasks(config, a, b)
    ELSE IF ret.fn = "subJobOrderFn" THEN compareSubJobs(config, a, b)
    ELSE compareJobs(config, a, b)

\* C22: each comparator of ex-priority is transitive: when it puts A before B and
\* B before C it puts A before C, and when it ties A with B and B with C it ties
\* A with C.
C22_ComparatorsTransitive ==
    (OrderCall /\ ret.plugin = ExPriority) =>
        \A c \in Thirds :
            /\ (ret.result < 0 /\ Compare(RightOf, c) < 0) => Compare(LeftOf, c) < 0
            /\ (ret.result = 0 /\ Compare(RightOf, c) = 0) => Compare(LeftOf, c) = 0

----------------------------------------------------------------------------
(* Priority-selector engine: exploration and properties *)

\* A caller invokes Matches on an expression
CallExpressionMatches(expr, priority) ==
    /\ ret = NoReturn
    /\ ret' = [fn |-> "PriorityExpression.Matches", expr |-> expr,
               priority |-> priority,
               result |-> PriorityExpressionMatches(expr, priority)]
    /\ UNCHANGED <<config, rules, ssnJobs, now, pc, plugins, opened, fns, snapshot,
                   openedAt, closedSessions, groupquota, openOrder>>

\* A caller invokes Matches on a selector
CallSelectorMatches(sel, priority) ==
    /\ ret = NoReturn
    /\ ret' = [fn |-> "PrioritySelector.Matches", sel |-> sel,
               priority |-> priority,
               result |-> PrioritySelectorMatches(sel, priority)]
    /\ UNCHANGED <<config, rules, ssnJobs, now, pc, plugins, opened, fns, snapshot,
                   openedAt, closedSessions, groupquota, openOrder>>

UnknownOperator == "Exists"

Operators ==
    {OperatorIn, OperatorNotIn, OperatorBetween, OperatorLt, OperatorGt,
     OperatorLte, OperatorGte, UnknownOperator}

ExpressionValues == 0..(MaxPriority + 1)

ValueLists == UNION {[1..n -> ExpressionValues] : n \in 0..MaxValues}

Expressions == {PriorityExpression(op, vs) : op \in Operators, vs \in ValueLists}

MatchedPriorities == (0 - 1)..(MaxPriority + 2)

\* The expressions the selectors explored are made of
SelectorExpressions ==
    {PriorityExpression(op, <<v>>) :
        op \in {OperatorIn, OperatorGte, UnknownOperator}, v \in ExpressionValues}
    \cup {PriorityExpression(OperatorBetween, <<MaxPriority, 0>>)}

Selectors ==
    {NilSelector}
    \cup {PrioritySelector(es) :
            es \in UNION {[1..n -> SelectorExpressions] : n \in 0..MaxExpressions}}

InitSelector ==
    /\ config = ExPriorityParseArguments(NoArguments)
    /\ rules = <<>>
    /\ ssnJobs = <<>>
    /\ snapshot = ssnJobs
    /\ now = Minute
    /\ pc = "running"
    /\ plugins = {}
    /\ opened = {}
    /\ openOrder = <<>>
    /\ fns = {}
    /\ ret = NoReturn
    /\ openedAt = 0
    /\ closedSessions = <<>>
    /\ groupquota = GroupQuotaNew(NoQuotaArguments)

NextSelector ==
    \/ \E expr \in Expressions, p \in MatchedPriorities :
            CallExpressionMatches(expr, p)
    \/ \E sel \in Selectors, p \in MatchedPriorities : CallSelectorMatches(sel, p)
    \/ HostTakeResult

SpecSelector == InitSelector /\ [][NextSelector]_vars

SelectorCall == ret.fn = "PrioritySelector.Matches"

ExpressionCall == ret.fn = "PriorityExpression.Matches"

\* The values of a value list
ValuesOf(vs) == {vs[i] : i \in DOMAIN vs}

\* C23: a selector matches a priority exactly when at least one of its
\* expressions matches it; the nil selector and the selector without expressions
\* match no priority.
C23_SelectorIsDisjunction ==
    SelectorCall =>
        /\ ret.result <=>
                /\ ~ret.sel.isNil
                /\ \E i \in DOMAIN ret.sel.AnyExpressions :
                        PriorityExpressionMatches(ret.sel.AnyExpressions[i],
                                                  ret.priority)
        /\ (ret.sel.isNil \/ ret.sel.AnyExpressions = <<>>) => ~ret.result

\* A selector matches a priority that its first expression does not match and its
\* second does
C23_Witness ==
    /\ SelectorCall
    /\ ret.result
    /\ Len(ret.sel.AnyExpressions) = 2
    /\ ~PriorityExpressionMatches(ret.sel.AnyExpressions[1], ret.priority)
    /\ PriorityExpressionMatches(ret.sel.AnyExpressions[2], ret.priority)

\* C24: Between with two values matches exactly the priorities from the smaller
\* value to the larger one, both included, in whichever order the two values are
\* given; Between with fewer than two values matches no priority.
C24_BetweenInclusiveNormalised ==
    (ExpressionCall /\ ret.expr.Operator = OperatorBetween) =>
        /\ Len(ret.expr.Values) = 2 =>
            /\ \E a, b \in ExpressionValues :
                /\ a <= b
                /\ {a, b} = ValuesOf(ret.expr.Values)
                /\ ret.result <=> (a <= ret.priority /\ ret.priority <= b)
            /\ ret.result =
                    PriorityExpressionMatches(
                        PriorityExpression(OperatorBetween,
                                           <<ret.expr.Values[2], ret.expr.Values[1]>>),
                        ret.priority)
        /\ Len(ret.expr.Values) < 2 => ~ret.result

\* Between whose first value is the larger matches a priority strictly between
\* the two
C24_Witness ==
    /\ ExpressionCall
    /\ ret.expr.Operator = OperatorBetween
    /\ Len(ret.expr.Values) = 2
    /\ ret.expr.Values[1] > ret.priority
    /\ ret.priority > ret.expr.Values[2]
    /\ ret.result

\* C25: In matches the priorities in the list and NotIn the others; Lt, Lte, Gt
\* and Gte match when the list is not empty and the priority is below, at most,
\* above, at least its first value; an unknown operator matches nothing.
C25_OperatorTable ==
    ExpressionCall =>
        LET op == ret.expr.Operator
            V == ret.expr.Values
            v == ret.priority
        IN /\ op = OperatorIn => (ret.result <=> v \in ValuesOf(V))
           /\ op = OperatorNotIn => (ret.result <=> v \notin ValuesOf(V))
           /\ op = OperatorLt => (ret.result <=> (V # <<>> /\ v < Head(V)))
           /\ op = OperatorLte => (ret.result <=> (V # <<>> /\ v <= Head(V)))
           /\ op = OperatorGt => (ret.result <=> (V # <<>> /\ v > Head(V)))
           /\ op = OperatorGte => (ret.result <=> (V # <<>> /\ v >= Head(V)))
           /\ op = UnknownOperator => ~ret.result

\* Gte with two values matches a priority that is at least the first value and
\* below the second
C25_Witness ==
    /\ ExpressionCall
    /\ ret.expr.Operator = OperatorGte
    /\ Len(ret.expr.Values) = 2
    /\ ret.priority >= ret.expr.Values[1]
    /\ ret.priority < ret.expr.Values[2]
    /\ ret.result

----------------------------------------------------------------------------
(* Runtime anomalies and empty configurations: properties *)

\* The session holds no job for the task
HasNilJob(t) == IsNilJob(ssnJobs, t.Job)

\* C26: preemptableFn and reclaimableFn never panic on an actor or a candidate
\* whose job the session does not hold: they return Permit, and no such candidate
\* is among the victims.
C26_NilJobNeverPanics ==
    VictimCall =>
        /\ ret.result.status = Permit
        /\ \A v \in Elems(ret.result.victims) : ~HasNilJob(v)

NoopJobs(id) ==
    {[QuotaJobInfo(id, p, g, a) EXCEPT !.CreationTimestamp = created] :
        p \in Priorities, created \in {0, Minute},
        g \in {NilPodGroup, PodGroup(DefaultAnnotationKey :> "a"),
               PodGroup(DefaultAnnotationKey :> "b")},
        a \in {Resource(0, 0, NoScalars), Resource(1000, 0, NoScalars),
               Resource(2000, 0, NoScalars)}}

NoopTimeArguments ==
    {[rules |-> NotGiven(<<>>)],
     [rules |-> Given(<<RawRule(<<"s", "o", "o", "n">>, In(0), 1)>>)],
     [rules |-> Given(<<RawRule(<<"1", "m">>, NilSelector, 1)>>)],
     [rules |-> Given(<<RawRule(<<"1", "m">>, In(0), 1)>>)]}

NoopQuotaArguments ==
    {[NoQuotaArguments EXCEPT !.resourceMap = m] :
        m \in ResourceMaps
              \cup {Given(ResourceMap("cpu" :> QuantityString(<<"x">>))),
                    Given(ResourceMap(("cpu" :> QuantityString(<<"P", "i">>))
                                      @@ ("memory" :> QuantityString(<<"K", "i">>)))),
                    Given(ResourceMap(("cpu" :> NotAString)
                                      @@ ("memory" :> QuantityString(<<"1">>))))}}

InitNoop ==
    /\ config = ExPriorityParseArguments(NoArguments)
    /\ \E args \in NoopTimeArguments : rules = TimePriorityParseArguments(args)
    /\ ssnJobs \in Sessions(NoopJobs)
    /\ snapshot = ssnJobs
    /\ now = 2 * Minute
    /\ pc = "opening"
    /\ plugins = {TimePriority, GroupQuota}
    /\ opened = {}
    /\ openOrder = <<>>
    /\ fns = {}
    /\ ret = NoReturn
    /\ openedAt = 0
    /\ closedSessions = <<>>
    /\ \E arguments \in NoopQuotaArguments : groupquota = GroupQuotaNew(arguments)

NextNoop ==
    \/ TimePriorityOnSessionOpen
    \/ GroupQuotaOnSessionOpen
    \/ \E l, r \in JobIDs : CallGroupQuotaJobOrder(l, r)
    \/ HostTakeResult

SpecNoop == InitNoop /\ [][NextNoop]_vars

\* The value of the resource map is a string that parses as a quantity
Parseable(v) ==
    v.isString /\ ~ParseQuantity(v.str).err /\ ~ParseQuantity(v.str).panic

\* The resource map group-quota was given is a map
ResourceMapGiven ==
    /\ groupquota.pluginArguments.resourceMap.ok
    /\ groupquota.pluginArguments.resourceMap.val.isMap

ResourceMapEntries == groupquota.pluginArguments.resourceMap.val.entries

\* C27: time-priority without rules changes no job at session open; group-quota
\* whose quota table is empty marks no group and its comparator returns 0; the
\* quota table holds exactly the resources of the resource map whose quantity
\* parses, each with its quantity, and is empty without a resource map.  An
\* open panics only where some value of the resource map is a string that
\* ParseQuantity does not reject.
C27_EmptyConfigurationIsNoop ==
    /\ (TimePriority \in opened /\ rules = <<>>) => ssnJobs = snapshot
    /\ pc = "panicked" =>
        /\ ResourceMapGiven
        /\ \E k \in DOMAIN ResourceMapEntries :
                /\ ResourceMapEntries[k].isString
                /\ ~ParseQuantity(ResourceMapEntries[k].str).err
    /\ GroupQuotaOpened =>
        /\ groupquota.quota = <<>> =>
            /\ groupquota.overQuotaGroups = {}
            /\ QuotaOrderCall => ret.result = 0
        /\ IF ResourceMapGiven
           THEN /\ DOMAIN groupquota.quota =
                        {k \in DOMAIN ResourceMapEntries :
                            Parseable(ResourceMapEntries[k])}
                /\ \A k \in DOMAIN groupquota.quota :
                        groupquota.quota[k] = ParseQuantity(ResourceMapEntries[k].str).q
           ELSE groupquota.quota = <<>>

\* Both plugins have opened the session without a valid entry: a job that has
\* waited keeps its priority, and the comparator ties a job of a group that holds
\* resources with a job of another group
C27_Witness ==
    /\ opened = {TimePriority, GroupQuota}
    /\ rules = <<>>
    /\ QuotaOrderCall
    /\ ret.result = 0
    /\ ResourceMapGiven
    /\ ResourceMapEntries # <<>>
    /\ groupquota.quota = <<>>
    /\ HasGroup(ssnJobs[ret.l])
    /\ ~IsEmpty(ssnJobs[ret.l].Allocated)
    /\ HasGroup(ssnJobs[ret.r])
    /\ GroupOf(ssnJobs[ret.l]) # GroupOf(ssnJobs[ret.r])
    /\ ssnJobs[ret.l].CreationTimestamp # 0
    /\ ssnJobs[ret.l].Priority = 0

----------------------------------------------------------------------------
(* ex-priority: starvation *)

\* The states of a task that the counts of a job tell apart: waiting for
\* resources, holding resources, and pipelined onto resources being released
TaskPending == "Pending"
TaskRunning == "Running"
TaskPipelined == "Pipelined"

\* api.JobInfo with its tasks, each given by its state
StarvingJobInfo(uid, priority, tasks) ==
    [UID |-> uid, Queue |-> 1, Priority |-> priority, Pending |-> FALSE,
     CreationTimestamp |-> 0, Tasks |-> tasks]

\* (*JobInfo).ReadyTaskNum
ReadyTaskNum(job) ==
    Cardinality({i \in DOMAIN job.Tasks : job.Tasks[i] = TaskRunning})

\* (*JobInfo).WaitingTaskNum
WaitingTaskNum(job) ==
    Cardinality({i \in DOMAIN job.Tasks : job.Tasks[i] = TaskPipelined})

\* jobStarvingFn that takes a job with as many ready and waiting tasks as tasks to
\* be starving
jobStarvingFnOrEqual(job) ==
    ReadyTaskNum(job) + WaitingTaskNum(job) <= Len(job.Tasks)

\* jobStarvingFn, registered by OnSessionOpen
jobStarvingFn(job) ==
    ReadyTaskNum(job) + WaitingTaskNum(job) < Len(job.Tasks)

\* The host invokes jobStarvingFn on a job of the session
CallJobStarving(id) ==
    /\ pc = "running"
    /\ ret = NoReturn
    /\ <<ExPriority, "jobStarvingFn">> \in fns
    /\ id \in DOMAIN ssnJobs
    /\ ret' = [fn |-> "jobStarvingFn", plugin |-> ExPriority, job |-> id,
               result |-> jobStarvingFn(ssnJobs[id])]
    /\ UNCHANGED <<config, rules, ssnJobs, now, pc, plugins, opened, fns, snapshot,
                   openedAt, closedSessions, groupquota, openOrder>>

TaskLists ==
    UNION {[1..n -> {TaskPending, TaskRunning, TaskPipelined}] : n \in 0..MaxTasks}

StarvingJobs(id) ==
    {StarvingJobInfo(id, p, tasks) : p \in Priorities, tasks \in TaskLists}

InitStarving ==
    /\ config = ExPriorityParseArguments(NoArguments)
    /\ rules = <<>>
    /\ ssnJobs \in Sessions(StarvingJobs)
    /\ snapshot = ssnJobs
    /\ now = Minute
    /\ pc = "opening"
    /\ plugins = {ExPriority}
    /\ opened = {}
    /\ openOrder = <<>>
    /\ fns = {}
    /\ ret = NoReturn
    /\ openedAt = 0
    /\ closedSessions = <<>>
    /\ groupquota = GroupQuotaNew(NoQuotaArguments)

NextStarving ==
    \/ ExPriorityOnSessionOpen
    \/ \E id \in JobIDs : CallJobStarving(id)
    \/ HostTakeResult

SpecStarving == InitStarving /\ [][NextStarving]_vars

\* The number of the tasks that are in the given state
RECURSIVE TasksIn(_, _)
TasksIn(tasks, state) ==
    IF tasks = <<>> THEN 0
    ELSE (IF Head(tasks) = state THEN 1 ELSE 0) + TasksIn(Tail(tasks), state)

\* C28: the job-starving predicate is true exactly when the ready tasks and the
\* waiting tasks of the job together are fewer than its tasks.
C28_StarvingIffTasksUnplaced ==
    ret.fn = "jobStarvingFn" =>
        LET tasks == ssnJobs[ret.job].Tasks
        IN ret.result <=>
            TasksIn(tasks, TaskRunning) + TasksIn(tasks, TaskPipelined) < Len(tasks)

\* A job with tasks, all of them ready or waiting, is found not to be starving
C28_Witness ==
    /\ ret.fn = "jobStarvingFn"
    /\ ~ret.result
    /\ Len(ssnJobs[ret.job].Tasks) = MaxTasks
    /\ TasksIn(ssnJobs[ret.job].Tasks, TaskRunning) > 0
    /\ TasksIn(ssnJobs[ret.job].Tasks, TaskPipelined) > 0

----------------------------------------------------------------------------
(* ex-priority: construction, exploration and properties *)

\* New of ex-priority: the plugin is built from its arguments
ExPriorityNew(arguments) ==
    /\ pc = "new"
    /\ ret = NoReturn
    /\ config' = ExPriorityParseArguments(arguments)
    /\ ret' = [fn |-> "New", plugin |-> ExPriority, arguments |-> arguments]
    /\ pc' = "opening"
    /\ UNCHANGED <<rules, ssnJobs, now, plugins, opened, fns, snapshot, openedAt,
                   closedSessions, groupquota, openOrder>>

ConfigArguments ==
    {[NoArguments EXCEPT !.sortOrder = o, !.preemptible = pre, !.blocking = b,
                         !.blockingScope = scope] :
        o \in {NotGiven(<<>>), Given(<<>>), Given(<<SortByCreationTime>>),
               Given(<<SortByPriority, SortByCreationTime>>)},
        pre \in {NotGiven(NilSelector), Given(In(0))},
        b \in {NotGiven(NilSelector), Given(Gte(1)), Given(PrioritySelector(<<>>))},
        scope \in {NotGiven(""), Given(BlockingScopeCluster),
                   Given(BlockingScopeQueue), Given("Cluster"), Given(""),
                   Given("namespace")}}

InitConfig ==
    /\ config = DefaultConfig
    /\ rules = <<>>
    /\ ssnJobs \in Sessions(BlockingJobs)
    /\ snapshot = ssnJobs
    /\ now = Minute
    /\ pc = "new"
    /\ plugins = {ExPriority}
    /\ opened = {}
    /\ openOrder = <<>>
    /\ fns = {}
    /\ ret = NoReturn
    /\ openedAt = 0
    /\ closedSessions = <<>>
    /\ groupquota = GroupQuotaNew(NoQuotaArguments)

NextConfig ==
    \/ \E arguments \in ConfigArguments : ExPriorityNew(arguments)
    \/ ExPriorityOnSessionOpen
    \/ HostTakeResult

SpecConfig == InitConfig /\ [][NextConfig]_vars

ExPriorityBuilt == ret.fn = "New" /\ ret.plugin = ExPriority

\* C29: built without sortOrder the plugin sorts by priority alone; its blocking
\* selector is unset unless one is given; its blocking scope is the one given if
\* that is "cluster" or "queue" and is "queue" otherwise, with or without a
\* blocking selector.
C29_ConfigurationDefaults ==
    ExPriorityBuilt =>
        /\ ~ret.arguments.sortOrder.ok => config.SortOrder = <<SortByPriority>>
        /\ IF ret.arguments.blocking.ok
           THEN config.Blocking = ret.arguments.blocking.val
           ELSE config.Blocking.isNil
        /\ config.BlockingScope =
                IF /\ ret.arguments.blockingScope.ok
                   /\ ret.arguments.blockingScope.val \in {"cluster", "queue"}
                THEN ret.arguments.blockingScope.val
                ELSE "queue"

\* Built with a blocking selector, an unknown blocking scope and no sortOrder,
\* the plugin has the scope queue and sorts by priority
C29_Witness ==
    /\ ExPriorityBuilt
    /\ ~ret.arguments.sortOrder.ok
    /\ ret.arguments.blocking.ok
    /\ ret.arguments.blockingScope.ok
    /\ ret.arguments.blockingScope.val \notin {"cluster", "queue", ""}
    /\ config.BlockingScope = BlockingScopeQueue
    /\ config.SortOrder = <<SortByPriority>>
    /\ ~config.Blocking.isNil

----------------------------------------------------------------------------
(* time-priority: order of the stored rules *)

\* The raw rules that survive parsing, in the order of the arguments
RECURSIVE Surviving(_)
Surviving(raw) ==
    IF raw = <<>> THEN <<>>
    ELSE IF ValidRawRule(Head(raw)) THEN <<KeptAs(Head(raw))>> \o Surviving(Tail(raw))
    ELSE Surviving(Tail(raw))

\* Sequence a is a rearrangement of sequence b
IsPermutation(a, b) ==
    /\ Len(a) = Len(b)
    /\ \A i \in DOMAIN a :
        Cardinality({k \in DOMAIN a : a[k] = a[i]})
        = Cardinality({k \in DOMAIN b : b[k] = a[i]})

\* C30: after construction the stored rules are in non-increasing order of
\* waitingThreshold, whatever the order of the raw rules, and are a rearrangement
\* of the surviving raw rules.
C30_StoredRulesSortedPermutation ==
    TimePriorityBuilt =>
        /\ \A i, j \in DOMAIN rules :
                i < j => DurationCmp(rules[i].WaitingThreshold,
                                     rules[j].WaitingThreshold) >= 0
        /\ IsPermutation(rules, Surviving(RawRulesGiven))

\* Two valid rules given with the shorter threshold first are stored with the
\* longer threshold first
C30_Witness ==
    /\ TimePriorityBuilt
    /\ Len(RawRulesGiven) = 2
    /\ Len(rules) = 2
    /\ DurationCmp(Surviving(RawRulesGiven)[1].WaitingThreshold,
                   Surviving(RawRulesGiven)[2].WaitingThreshold) = -1
    /\ rules[1] = Surviving(RawRulesGiven)[2]
    /\ rules[2] = Surviving(RawRulesGiven)[1]

----------------------------------------------------------------------------
(* Waiting duration: exploration and properties *)

WaitJobs(id) ==
    {JobInfo(id, 1, p, TRUE, created) :
        p \in Priorities, created \in {0, Minute, 3 * Minute}}

WaitRawRules ==
    {RawRule(t, sel, target) :
        t \in {<<"1", "m">>, <<"0", "s">>},
        sel \in {In(0), Lte(1)},
        target \in {1, MaxPriority + 1}}

WaitArguments ==
    {[rules |-> Given(l)] : l \in UNION {[1..n -> WaitRawRules] : n \in 0..MaxRules}}

InitWait ==
    /\ config = ExPriorityParseArguments(NoArguments)
    /\ \E args \in WaitArguments : rules = TimePriorityParseArguments(args)
    /\ ssnJobs \in Sessions(WaitJobs)
    /\ snapshot = ssnJobs
    /\ now = Minute
    /\ pc = "opening"
    /\ plugins = {TimePriority}
    /\ opened = {}
    /\ openOrder = <<>>
    /\ fns = {}
    /\ ret = NoReturn
    /\ openedAt = 0
    /\ closedSessions = <<>>
    /\ groupquota = GroupQuotaNew(NoQuotaArguments)

NextWait ==
    \/ TimePriorityOnSessionOpen
    \/ \E job \in {NilJobInfo} \cup WaitJobs(1) : CallGetWaitingDuration(job)
    \/ Tick
    \/ HostTakeResult

SpecWait == InitWait /\ [][NextWait]_vars

\* C31: getWaitingDuration is 0 for a nil job and for a job without creation
\* timestamp and is the time from the creation timestamp to now otherwise; a job
\* without creation timestamp, or created at or after now, keeps its priority at
\* session open.
C31_NoWaitNoEscalation ==
    /\ ret.fn = "getWaitingDuration" =>
        ret.result =
            IF ret.job = NilJobInfo THEN ZeroDuration
            ELSE IF ret.job.CreationTimestamp = 0 THEN ZeroDuration
            ELSE Milliseconds(ret.now - ret.job.CreationTimestamp)
    /\ TimePriorityOpened =>
        \A id \in DOMAIN ssnJobs :
            (\/ snapshot[id].CreationTimestamp = 0
             \/ snapshot[id].CreationTimestamp >= ret.now)
                => ssnJobs[id].Priority = snapshot[id].Priority

\* At session open a job created after now keeps a priority that a rule would
\* change, while a job that has waited is escalated
C31_Witness ==
    /\ TimePriorityOpened
    /\ \E a, b \in DOMAIN ssnJobs :
        /\ snapshot[a].CreationTimestamp > ret.now
        /\ \E i \in DOMAIN rules :
                /\ PrioritySelectorMatches(rules[i].SourcePriority,
                                           snapshot[a].Priority)
                /\ rules[i].TargetPriority # snapshot[a].Priority
        /\ ssnJobs[a].Priority = snapshot[a].Priority
        /\ ssnJobs[b].Priority # snapshot[b].Priority

----------------------------------------------------------------------------
(* The key creationTime: properties *)

\* The keys of the sort order at which creationTime is consulted for the pair of
\* ret: no earlier key distinguishes the pair
CreationTimeConsulted ==
    {i \in DOMAIN config.SortOrder :
        /\ config.SortOrder[i] = SortByCreationTime
        /\ \A k \in 1..(i - 1) : KeyOutcome(config.SortOrder[k]) = 0}

\* The timestamps of the left and of the right element of the pair of ret
LeftTimestamp ==
    IF ret.fn = "jobOrderFn" THEN ssnJobs[ret.l].CreationTimestamp
    ELSE TaskTimestamp(ret.l)

RightTimestamp ==
    IF ret.fn = "jobOrderFn" THEN ssnJobs[ret.r].CreationTimestamp
    ELSE TaskTimestamp(ret.r)

\* What the keys after key i say about the pair of ret
DecisionAfter(i) ==
    LET later == {k \in Distinguishing : k > i}
    IN IF later = {} THEN 0
       ELSE KeyOutcome(config.SortOrder[CHOOSE k \in later : \A m \in later : k <= m])

\* C32: where the key creationTime is consulted for two tasks or two jobs, the one
\* with the earlier timestamp goes first; the timestamp of a task is the start
\* time of its pod if set and else the creation timestamp of the pod, that of a
\* job its creation timestamp; if a timestamp is missing or the two are equal the
\* later keys decide.
C32_CreationTimeKey ==
    (ret.fn \in {"taskOrderFn", "jobOrderFn"} /\ ret.plugin = ExPriority) =>
        \A i \in CreationTimeConsulted :
            IF LeftTimestamp # 0 /\ RightTimestamp # 0
               /\ LeftTimestamp # RightTimestamp
            THEN ret.result = IF LeftTimestamp < RightTimestamp THEN -1 ELSE 1
            ELSE ret.result = DecisionAfter(i)

\* A task whose pod started before it was created on record goes before a task of
\* higher priority that has the same creation timestamp and has not started
C32_Witness ==
    /\ ret.fn = "taskOrderFn"
    /\ config.SortOrder = <<SortByCreationTime, SortByPriority>>
    /\ ~ret.l.Pod.isNil
    /\ ~ret.r.Pod.isNil
    /\ ~ret.l.Pod.StartTime.isNil
    /\ ret.l.Pod.StartTime.Time # 0
    /\ ret.l.Pod.StartTime.Time < ret.l.Pod.CreationTimestamp
    /\ ret.r.Pod.StartTime.isNil
    /\ ret.r.Pod.CreationTimestamp = ret.l.Pod.CreationTimestamp
    /\ ret.l.Priority < ret.r.Priority
    /\ ret.result = -1

----------------------------------------------------------------------------
(* The timeout override: exploration and properties *)

\* The annotations a pod may carry: none, another key, and under the key of the
\* maximum run time the empty string, "1m", "2m", "1.5m", "90000000us", "x", "0",
\* "-1m" and "0.99999999999999999ns", which float64 rounds to one nanosecond
TimeoutAnnotations ==
    {<<>>, "other" :> <<"1", "m">>} \cup
    {MaxRunTimeKey :> v :
        v \in {<<>>, <<"1", "m">>, <<"2", "m">>, <<"1", ".", "5", "m">>,
               <<"9", "0", "0", "0", "0", "0", "0", "0", "u", "s">>,
               <<"x">>, <<"0">>, <<"-", "1", "m">>,
               <<"0", ".", "9", "9", "9", "9", "9", "9", "9", "9", "9", "9", "9", "9",
                 "9", "9", "9", "9", "9", "n", "s">>}}

\* The pods: nil, or not started, started at the zero time, or started at the
\* first or the second minute
TimeoutPods ==
    {NilPod} \cup
    {Pod(a, st) : a \in TimeoutAnnotations,
                 st \in {NilTime, MetaTime(0), MetaTime(Minute), MetaTime(2 * Minute)}}

TimeoutTasks ==
    {TaskInfo(j, p, pod) : j \in JobIDs, p \in TaskPriorities, pod \in TimeoutPods}

TimeoutCandidateLists == {<<>>} \cup {<<t>> : t \in TimeoutTasks}

TimeoutArguments ==
    {[NoArguments EXCEPT !.preemptible = p, !.maxRunTimeAnnotationKey = k] :
        p \in {NotGiven(NilSelector), Given(In(0))},
        k \in {NotGiven(""), Given(MaxRunTimeKey)}}

InitTimeout ==
    /\ \E args \in TimeoutArguments : config = ExPriorityParseArguments(args)
    /\ rules = <<>>
    /\ ssnJobs \in Sessions(PreemptJobs)
    /\ snapshot = ssnJobs
    /\ now = Minute
    /\ pc = "opening"
    /\ plugins = {ExPriority}
    /\ opened = {}
    /\ openOrder = <<>>
    /\ fns = {}
    /\ ret = NoReturn
    /\ openedAt = 0
    /\ closedSessions = <<>>
    /\ groupquota = GroupQuotaNew(NoQuotaArguments)

NextTimeout ==
    \/ ExPriorityOnSessionOpen
    \/ \E t \in TimeoutTasks \cup {NilTaskInfo} : CallIsTaskTimedOut(t)
    \/ \E t \in Actors : \E l \in TimeoutCandidateLists : CallPreemptable(t, l)
    \/ \E t \in Actors : \E l \in TimeoutCandidateLists : CallReclaimable(t, l)
    \/ Tick
    \/ HostTakeResult

SpecTimeout == InitTimeout /\ [][NextTimeout]_vars

\* One of the cases in which a task has no timeout to run out at the instant time
NoTimeoutCase(task, time) ==
    \/ config.MaxRunTimeAnnotationKey = ""
    \/ task = NilTaskInfo
    \/ task.Pod.isNil
    \/ config.MaxRunTimeAnnotationKey \notin DOMAIN task.Pod.Annotations
    \/ task.Pod.Annotations[config.MaxRunTimeAnnotationKey] = <<>>
    \/ task.Pod.StartTime.isNil
    \/ ParseDuration(task.Pod.Annotations[config.MaxRunTimeAnnotationKey]).err
    \/ DurationCmp(ParseDuration(task.Pod.Annotations[config.MaxRunTimeAnnotationKey]).d,
                   ZeroDuration) <= 0
    \/ ~RunIsOver(task.Pod.StartTime.Time,
                  ParseDuration(task.Pod.Annotations[config.MaxRunTimeAnnotationKey]).d,
                  time)

\* The configuration without a key of the maximum run time
WithoutTimeout == [config EXCEPT !.MaxRunTimeAnnotationKey = ""]

\* C33: isTaskTimedOut is false when the key of the maximum run time is not
\* configured, the task or its pod is nil, the annotation is missing or empty, the
\* pod has not started, the value is no duration or not positive, or the deadline
\* is later than now; such a candidate is a victim only by the gate and the
\* priority rule, and a call with such candidates only gives what it gives when no
\* key is configured.
C33_NoTimeoutNoOverride ==
    /\ ret.fn = "isTaskTimedOut" =>
        (NoTimeoutCase(ret.task, ret.now) => ret.result = FALSE)
    /\ VictimCall =>
        /\ \A v \in Elems(ret.candidates) :
            (NoTimeoutCase(v, now) /\ v \in Elems(ret.result.victims)) =>
                PassesGate(GateOf(ret.fn), v) /\ LowerThan(v, ret.actor)
        /\ (\A v \in Elems(ret.candidates) : NoTimeoutCase(v, now)) =>
            ret.result =
                IF ret.fn = "preemptableFn"
                THEN preemptableFn(WithoutTimeout, ssnJobs, now, ret.actor,
                                   ret.candidates)
                ELSE reclaimableFn(WithoutTimeout, ssnJobs, now, ret.actor,
                                   ret.candidates)

\* With the key configured, a started candidate annotated with a maximum run time
\* of "0" is kept out by the priority rule
C33_Witness ==
    /\ ret.fn = "preemptableFn"
    /\ config.MaxRunTimeAnnotationKey = MaxRunTimeKey
    /\ ret.result.status = Permit
    /\ \E v \in Elems(ret.candidates) :
        /\ ~v.Pod.isNil
        /\ MaxRunTimeKey \in DOMAIN v.Pod.Annotations
        /\ v.Pod.Annotations[MaxRunTimeKey] = <<"0">>
        /\ ~v.Pod.StartTime.isNil
        /\ v.Pod.StartTime.Time # 0
        /\ v.Pod.StartTime.Time <= now
        /\ PassesGate(config.Preemptible, v)
        /\ ~LowerThan(v, ret.actor)
        /\ v \notin Elems(ret.result.victims)

----------------------------------------------------------------------------
(* Group accounting: properties *)

\* The resources a job of the sessions explored may hold
AllocatedResourceNames ==
    {"cpu", "memory"} \cup
    UNION {DOMAIN ssnJobs[id].Allocated.ScalarResources : id \in DOMAIN ssnJobs}

\* The quantity q, which counts whole units or thousandths, in thousandths
Thousandths(q) ==
    (IF q.neg THEN -1 ELSE 1) * NatToInt(NatShift(q.n, q.zeros + 3 - q.scale))

\* The usage of the named resource that the open pass has recorded for group g,
\* in thousandths
UsageOf(g, name) ==
    IF g \in DOMAIN groupquota.groupUsage /\ name \in DOMAIN groupquota.groupUsage[g]
    THEN Thousandths(groupquota.groupUsage[g][name])
    ELSE 0

\* The resources for which the open pass has recorded a usage of group g
UsedNames(g) ==
    IF g \in DOMAIN groupquota.groupUsage THEN DOMAIN groupquota.groupUsage[g] ELSE {}

\* C34: after the open pass of group-quota the usage of every group in every
\* resource is the sum of what the jobs hold that have a non-empty allocation and
\* carry the group annotation with the value of the group; no other job adds to
\* the usage of any group.
C34_GroupUsageIsSumOfMembers ==
    GroupQuotaOpened =>
        /\ \A g \in GroupNames \cup DOMAIN groupquota.groupUsage :
            \A name \in AllocatedResourceNames \cup UsedNames(g) :
                UsageOf(g, name) = TotalAmount(Members(g), name)
        /\ DOMAIN groupquota.groupUsage \subseteq GroupNames

\* The usage of a group in cpu is the sum of what its two members hold, each of
\* them holding some
C34_Witness ==
    /\ GroupQuotaOpened
    /\ \E g \in DOMAIN groupquota.groupUsage :
        /\ Cardinality(Members(g)) = 2
        /\ \A id \in Members(g) : ssnJobs[id].Allocated.MilliCPU > 0
        /\ UsageOf(g, "cpu") = TotalAmount(Members(g), "cpu")

----------------------------------------------------------------------------
(* The order of the open hooks: properties *)

\* The jobs of the session as the open pass of time-priority leaves them when it
\* is the first hook to run on the jobs the host handed over
TimePriorityFirstJobs ==
    IF Len(rules) = 0 THEN snapshot
    ELSE [id \in DOMAIN snapshot |->
            Escalate(rules, snapshot[id], getWaitingDuration(snapshot[id], openedAt), 1)]

\* C35: whichever of the open hooks of time-priority and ex-priority the host
\* calls first, a callback of ex-priority invoked after both have returned gives
\* what it gives on the jobs that time-priority, opened first, has escalated.
C35_OpenOrderIndependence ==
    (pc = "running"
     /\ openOrder \in {<<TimePriority, ExPriority>>, <<ExPriority, TimePriority>>}) =>
        /\ ret.fn = "jobEnqueueableFn" =>
            \A order \in RangeOrders(TimePriorityFirstJobs) :
                ret.result = jobEnqueueableFn(config, TimePriorityFirstJobs, order,
                                              TimePriorityFirstJobs[ret.job])
        /\ ret.fn = "jobValidFn" =>
            \A order \in RangeOrders(TimePriorityFirstJobs) :
                ret.result = jobValidFn(config, TimePriorityFirstJobs, order,
                                        TimePriorityFirstJobs[ret.job])
        /\ ret.fn = "jobOrderFn" =>
            ret.result = compareJobs(config, TimePriorityFirstJobs[ret.l],
                                     TimePriorityFirstJobs[ret.r])
        /\ ret.fn = "preemptableFn" =>
            ret.result = preemptableFn(config, TimePriorityFirstJobs, now, ret.actor,
                                       ret.candidates)
        /\ ret.fn = "reclaimableFn" =>
            ret.result = reclaimableFn(config, TimePriorityFirstJobs, now, ret.actor,
                                       ret.candidates)

\* ex-priority was opened before time-priority, and jobOrderFn orders two jobs
\* otherwise than their priorities at that moment would
C35_Witness ==
    /\ pc = "running"
    /\ openOrder = <<ExPriority, TimePriority>>
    /\ ret.fn = "jobOrderFn"
    /\ ret.result # compareJobs(config, snapshot[ret.l], snapshot[ret.r])

----------------------------------------------------------------------------
(* Blocking over the life of a session: exploration and properties *)

LiveArguments ==
    {[NoArguments EXCEPT !.blocking = b, !.blockingScope = s] :
        b \in {NotGiven(NilSelector), Given(Gte(1))},
        s \in {NotGiven(""), Given(BlockingScopeCluster), Given(BlockingScopeQueue)}}

\* All job maps over subsets of LiveJobIDs
LiveSessions ==
    UNION {{f \in [S -> UNION {BlockingJobs(i) : i \in S}] :
                \A i \in S : f[i] \in BlockingJobs(i)}
           : S \in SUBSET LiveJobIDs}

InitLive ==
    /\ \E args \in LiveArguments : config = ExPriorityParseArguments(args)
    /\ rules = <<>>
    /\ ssnJobs \in LiveSessions
    /\ snapshot = ssnJobs
    /\ now = Minute
    /\ pc = "opening"
    /\ plugins = {ExPriority}
    /\ opened = {}
    /\ openOrder = <<>>
    /\ fns = {}
    /\ ret = NoReturn
    /\ openedAt = 0
    /\ closedSessions = <<>>
    /\ groupquota = GroupQuotaNew(NoQuotaArguments)

NextLive ==
    \/ ExPriorityOnSessionOpen
    \/ \E id \in LiveJobIDs : \E order \in RangeOrders(ssnJobs) :
            CallJobEnqueueable(id, order)
    \/ \E id \in LiveJobIDs : \E order \in RangeOrders(ssnJobs) : CallJobValid(id, order)
    \/ \E id \in LiveJobIDs : HostEnqueueJob(id)
    \/ HostTakeResult

SpecLive == InitLive /\ [][NextLive]_vars

\* Job j had a pending blocking job of higher priority in its scope when the
\* session was opened
BlockedAtOpen(j) == \E h \in DOMAIN snapshot : BlocksInScope(snapshot, h, j)

\* Job j has such a job in its scope now
BlockedNow(j) == \E h \in DOMAIN ssnJobs : BlocksInScope(ssnJobs, h, j)

\* The sessions obtained from jobs by adding, removing or changing one job that is
\* outside the queue of job j before and after the change
OtherQueueChanges(jobs, j) ==
    LET q == jobs[j].Queue
        free == {k \in LiveJobIDs \ {j} : k \in DOMAIN jobs => jobs[k].Queue # q}
    IN {[i \in DOMAIN jobs \ {k} |-> jobs[i]] : k \in free}
       \cup UNION {{[i \in DOMAIN jobs \cup {k} |-> IF i = k THEN alt ELSE jobs[i]]
                    : alt \in {a \in BlockingJobs(k) : a.Queue # q}}
                   : k \in free}

\* C3: under queue scope the result of jobEnqueueableFn(J) and jobValidFn(J) is the
\* one every session gives that differs only in jobs of other queues; under cluster
\* scope a pending blocking job of strictly greater priority in another queue
\* blocks J.
C3_ScopeOfBlocking ==
    (BlockingConfigured /\ ret.fn \in {"jobEnqueueableFn", "jobValidFn"}) =>
        /\ config.BlockingScope = BlockingScopeQueue =>
            \A alt \in OtherQueueChanges(ssnJobs, ret.job) :
                \A order \in RangeOrders(alt) :
                    /\ ret.fn = "jobEnqueueableFn" =>
                        jobEnqueueableFn(config, alt, order, alt[ret.job]) = ret.result
                    /\ ret.fn = "jobValidFn" =>
                        jobValidFn(config, alt, order, alt[ret.job]) = ret.result
        /\ (config.BlockingScope = BlockingScopeCluster
            /\ ~PrioritySelectorMatches(config.Blocking, ssnJobs[ret.job].Priority)
            /\ \E h \in DOMAIN ssnJobs \ {ret.job} :
                /\ ssnJobs[h].Pending
                /\ ssnJobs[h].Queue # ssnJobs[ret.job].Queue
                /\ PrioritySelectorMatches(config.Blocking, ssnJobs[h].Priority)
                /\ ssnJobs[h].Priority > ssnJobs[ret.job].Priority) =>
            /\ ret.fn = "jobEnqueueableFn" => ret.result = Reject
            /\ ret.fn = "jobValidFn" => Failed(ret.result)

\* Queue scope: J is rejected because of a job of its queue while another queue
\* holds a pending blocking job of greater priority as well
C3_Witness ==
    /\ BlockingConfigured
    /\ config.BlockingScope = BlockingScopeQueue
    /\ ret.fn = "jobEnqueueableFn"
    /\ ret.result = Reject
    /\ \E h \in DOMAIN ssnJobs \ {ret.job} :
        /\ ssnJobs[h].Pending
        /\ ssnJobs[h].Queue # ssnJobs[ret.job].Queue
        /\ PrioritySelectorMatches(config.Blocking, ssnJobs[h].Priority)
        /\ ssnJobs[h].Priority > ssnJobs[ret.job].Priority
    /\ \E alt \in OtherQueueChanges(ssnJobs, ret.job) : DOMAIN alt # DOMAIN ssnJobs

\* C36: a job that was blocked when the session was opened is rejected by
\* jobEnqueueableFn and failed by jobValidFn for as long as a pending blocking job
\* of higher priority is in its scope; once the last such job has left the
\* pending phase, jobEnqueueableFn abstains and jobValidFn has no opinion.
C36_BlockingFollowsLiveState ==
    (BlockingConfigured
     /\ ret.fn \in {"jobEnqueueableFn", "jobValidFn"}
     /\ ~PrioritySelectorMatches(config.Blocking, ssnJobs[ret.job].Priority)
     /\ BlockedAtOpen(ret.job)) =>
        IF BlockedNow(ret.job)
        THEN /\ ret.fn = "jobEnqueueableFn" => ret.result = Reject
             /\ ret.fn = "jobValidFn" => Failed(ret.result)
        ELSE /\ ret.fn = "jobEnqueueableFn" => ret.result = Abstain
             /\ ret.fn = "jobValidFn" => ret.result.isNil

\* Two jobs blocked a third one when the session was opened; both have been
\* enqueued since, and jobEnqueueableFn abstains
C36_Witness ==
    /\ BlockingConfigured
    /\ ret.fn = "jobEnqueueableFn"
    /\ ret.result = Abstain
    /\ Cardinality({h \in DOMAIN snapshot : BlocksInScope(snapshot, h, ret.job)}) = 2
    /\ ~BlockedNow(ret.job)

----------------------------------------------------------------------------
(* Blocking leaves a job free: properties *)

\* The pending jobs of the session in the scope of job j
PendingInScope(j) ==
    {h \in DOMAIN ssnJobs :
        /\ ssnJobs[h].Pending
        /\ config.BlockingScope = BlockingScopeQueue =>
                ssnJobs[h].Queue = ssnJobs[j].Queue}

\* No pending job in the scope of job j has a priority above that of j
TopOfScope(j) ==
    \A h \in PendingInScope(j) : ssnJobs[j].Priority >= ssnJobs[h].Priority

\* ex-priority does not hold back job j: the two callbacks are not registered, or
\* jobEnqueueableFn does not reject j and jobValidFn does not fail it
NotBlocked(j) ==
    \/ <<ExPriority, "jobEnqueueableFn">> \notin fns
       /\ <<ExPriority, "jobValidFn">> \notin fns
    \/ \A order \in RangeOrders(ssnJobs) :
        /\ jobEnqueueableFn(config, ssnJobs, order, ssnJobs[j]) # Reject
        /\ ~Failed(jobValidFn(config, ssnJobs, order, ssnJobs[j]))

\* C37: a job whose priority is at least that of every pending job in its scope
\* is not rejected by jobEnqueueableFn and not failed by jobValidFn, and a running
\* session that has a job has a job that ex-priority does not hold back.
C37_SomeJobNotBlocked ==
    /\ (ret.fn \in {"jobEnqueueableFn", "jobValidFn"} /\ TopOfScope(ret.job)) =>
        /\ ret.fn = "jobEnqueueableFn" => ret.result # Reject
        /\ ret.fn = "jobValidFn" => ~Failed(ret.result)
    /\ (pc = "running" /\ DOMAIN ssnJobs # {}) =>
        \E j \in DOMAIN ssnJobs : TopOfScope(j) /\ NotBlocked(j)

\* jobEnqueueableFn abstains for a job outside the blocking priorities that has a
\* pending job of a blocking priority below it in its scope
C37_Witness ==
    /\ BlockingConfigured
    /\ ret.fn = "jobEnqueueableFn"
    /\ ret.result = Abstain
    /\ TopOfScope(ret.job)
    /\ \E h \in PendingInScope(ret.job) :
        /\ h # ret.job
        /\ PrioritySelectorMatches(config.Blocking, ssnJobs[h].Priority)
        /\ ssnJobs[h].Priority < ssnJobs[ret.job].Priority

----------------------------------------------------------------------------
(* Over-quota flags over the life of a session: exploration and properties *)

FlagAllocations ==
    {Resource(0, 0, NoScalars), Resource(1000, 0, NoScalars),
     Resource(2000, 0, NoScalars)}

FlagJobs(id) ==
    {QuotaJobInfo(id, 0, g, a) :
        g \in {NilPodGroup, PodGroup(DefaultAnnotationKey :> "a"),
               PodGroup(DefaultAnnotationKey :> "b")},
        a \in FlagAllocations}

FlagArguments ==
    {[annotationKey |-> NotGiven(OtherValue), resourceMap |-> Given(ResourceMap(m))] :
        m \in {"cpu" :> QuantityString(<<"2">>), "cpu" :> QuantityString(<<"3">>),
               "cpu" :> LimitE2147483645,
               ("cpu" :> QuantityString(<<"2">>)) @@ ("memory" :> Limit19DigitsE2147483639)}}

InitFlags ==
    /\ config = ExPriorityParseArguments(NoArguments)
    /\ rules = <<>>
    /\ ssnJobs \in Sessions(FlagJobs)
    /\ snapshot = ssnJobs
    /\ now = Minute
    /\ pc = "opening"
    /\ plugins = {GroupQuota}
    /\ opened = {}
    /\ openOrder = <<>>
    /\ fns = {}
    /\ ret = NoReturn
    /\ openedAt = 0
    /\ closedSessions = <<>>
    /\ \E arguments \in FlagArguments : groupquota = GroupQuotaNew(arguments)

NextFlags ==
    \/ GroupQuotaOnSessionOpen
    \/ \E l, r \in JobIDs : CallGroupQuotaJobOrder(l, r)
    \/ \E id \in JobIDs : \E a \in FlagAllocations : HostChangeAllocated(id, a)
    \/ HostNextSession
    \/ HostTakeResult

SpecFlags == InitFlags /\ [][NextFlags]_vars

\* The jobs among the given ones that hold resources and carry the annotation
\* naming group g
MembersAmong(jobs, g) ==
    {id \in DOMAIN jobs :
        /\ HasGroup(jobs[id])
        /\ GroupOf(jobs[id]) = g
        /\ ~IsEmpty(jobs[id].Allocated)}

\* What the jobs ids among the given ones hold of the named resource together,
\* in thousandths
RECURSIVE TotalAmong(_, _, _)
TotalAmong(jobs, ids, name) ==
    IF ids = {} THEN 0
    ELSE LET id == CHOOSE j \in ids : TRUE
         IN Amount(jobs[id], name) + TotalAmong(jobs, ids \ {id}, name)

\* The groups that are over quota by what the given jobs hold: those that use a
\* resource of the quota table to its limit or beyond
OverQuotaBy(jobs) ==
    {g \in {GroupOf(jobs[id]) : id \in {i \in DOMAIN jobs : HasGroup(jobs[i])}} :
        \E name \in DOMAIN groupquota.quota :
            /\ \E id \in MembersAmong(jobs, g) : Uses(jobs[id], name)
            /\ MeetsLimit(TotalAmong(jobs, MembersAmong(jobs, g), name),
                          groupquota.quota[name])}

\* The comparator of group-quota on jobs l and r of the session, given the groups
\* that are over quota
OrderGiven(over, l, r) ==
    GroupQuotaJobOrderFn([groupquota EXCEPT !.overQuotaGroups = over],
                         ssnJobs[l], ssnJobs[r])

\* C38: throughout a session the comparator of group-quota answers by the groups
\* that were over quota by what the jobs held when this session was opened,
\* whatever the jobs have come to hold since and whatever groups were over quota
\* in the session before.
C38_FlagsFixedAtOpen ==
    QuotaOrderCall => ret.result = OrderGiven(OverQuotaBy(snapshot), ret.l, ret.r)

\* In the second session, after the jobs have changed what they hold, the
\* comparator answers otherwise than by what they hold now and otherwise than by
\* the groups that were over quota when the first session was opened
C38_Witness ==
    /\ QuotaOrderCall
    /\ Len(closedSessions) = 1
    /\ ret.result # OrderGiven(OverQuotaBy(ssnJobs), ret.l, ret.r)
    /\ ret.result # OrderGiven(OverQuotaBy(closedSessions[1].before), ret.l, ret.r)

----------------------------------------------------------------------------
(* The iteration order of the job map: exploration and properties *)

RangeJobs(id) ==
    {[QuotaJobInfo(id, p, PodGroup(DefaultAnnotationKey :> g), a)
        EXCEPT !.Pending = pend, !.CreationTimestamp = created] :
        p \in Priorities, g \in {"a", "b"},
        a \in {Resource(1000, 0, NoScalars), Resource(2000, 0, NoScalars)},
        pend \in BOOLEAN, created \in {0, Minute}}

\* The jobs of the sessions of NumLiveJobs jobs: all of one group, each holding
\* one cpu
LeanRangeJobs(id) ==
    {[QuotaJobInfo(id, p, PodGroup(DefaultAnnotationKey :> "a"),
                   Resource(1000, 0, NoScalars))
        EXCEPT !.Pending = pend, !.CreationTimestamp = created] :
        p \in Priorities, pend \in BOOLEAN, created \in {0, Minute}}

RangeSessions ==
    Sessions(RangeJobs)
    \cup {f \in [LiveJobIDs -> UNION {LeanRangeJobs(i) : i \in LiveJobIDs}] :
            \A i \in LiveJobIDs : f[i] \in LeanRangeJobs(i)}

RangeRules == <<RawRule(<<"1", "m">>, In(0), 1)>>

InitRange ==
    /\ config = ExPriorityParseArguments([NoArguments EXCEPT !.blocking = Given(Gte(1))])
    /\ rules = TimePriorityParseArguments([rules |-> Given(RangeRules)])
    /\ ssnJobs \in RangeSessions
    /\ snapshot = ssnJobs
    /\ now = 2 * Minute
    /\ pc = "opening"
    /\ plugins = {TimePriority, GroupQuota, ExPriority}
    /\ opened = {}
    /\ openOrder = <<>>
    /\ fns = {}
    /\ ret = NoReturn
    /\ openedAt = 0
    /\ closedSessions = <<>>
    /\ \E arguments \in FlagArguments : groupquota = GroupQuotaNew(arguments)

NextRange ==
    \/ TimePriorityOnSessionOpen
    \/ GroupQuotaOnSessionOpen
    \/ ExPriorityOnSessionOpen
    \/ \E id \in LiveJobIDs : \E order \in RangeOrders(ssnJobs) :
            CallJobEnqueueable(id, order)
    \/ \E id \in LiveJobIDs : \E order \in RangeOrders(ssnJobs) :
            CallJobValid(id, order)
    \/ \E l, r \in LiveJobIDs : CallGroupQuotaJobOrder(l, r)
    \/ HostTakeResult

SpecRange == InitRange /\ [][NextRange]_vars

\* The usage that a traversal of the jobs of the session in the given order adds
\* up under the annotation key
UsageInOrder(key, order) == AccountJobs(ssnJobs, order, key, 1, <<>>)

\* C39: whatever the order in which the job map is traversed, the open pass of
\* time-priority leaves the same priority on every job, group-quota adds up the
\* same usage and finds the same groups over quota, or panics as it does in any
\* other order, and hasBlockingJobAhead returns the same boolean.
C39_IterationOrderIrrelevant ==
    /\ TimePriority \in opened =>
        \A order \in RangeOrders(snapshot) :
            LET escalated == EscalateJobs(rules, snapshot, order, 1, openedAt)
            IN \A id \in DOMAIN snapshot :
                escalated[id].Priority = ssnJobs[id].Priority
    /\ GroupQuota \in opened =>
        /\ \A order \in RangeOrders(ssnJobs) :
            UsageInOrder(groupquota.annotationKey, order) = groupquota.groupUsage
        /\ \A orders \in MarkingOrders(groupquota.groupUsage, groupquota.quota) :
            LET marked == MarkOverQuota(groupquota.groupUsage, groupquota.quota,
                                        orders[1], orders[2], 1, {})
            IN marked.panic \/ marked.overQuotaGroups = groupquota.overQuotaGroups
    /\ pc = "panicked" =>
        \E key \in {AnnotationKeyOf(groupquota.pluginArguments)},
           parsed \in {QuotaOf(groupquota.pluginArguments)} :
            \/ parsed.panic
            \/ \A order \in RangeOrders(ssnJobs) :
                \E orders \in MarkingOrders(UsageInOrder(key, order), parsed.quota) :
                    MarkOverQuota(UsageInOrder(key, order), parsed.quota,
                                  orders[1], orders[2], 1, {}).panic
    /\ pc = "running" =>
        \E orders \in {RangeOrders(ssnJobs)} :
            \A id \in DOMAIN ssnJobs :
                Cardinality({hasBlockingJobAhead(config, ssnJobs, order, ssnJobs[id]) :
                                order \in orders}) = 1
    /\ ret.fn = "jobEnqueueableFn" =>
        \A order \in RangeOrders(ssnJobs) :
            ret.result = jobEnqueueableFn(config, ssnJobs, order, ssnJobs[ret.job])

\* Of three jobs of one group that is over quota only by what they hold
\* together, the open pass of time-priority has escalated one and not the others;
\* one of the others is rejected because of it, and the third does not block it
C39_Witness ==
    /\ pc = "running"
    /\ DOMAIN ssnJobs = LiveJobIDs
    /\ ret.fn = "jobEnqueueableFn"
    /\ ret.result = Reject
    /\ \E h \in DOMAIN ssnJobs :
        /\ h # ret.job
        /\ ssnJobs[h].Priority # snapshot[h].Priority
        /\ ssnJobs[ret.job].Priority = snapshot[ret.job].Priority
        /\ GroupOf(ssnJobs[h]) = GroupOf(ssnJobs[ret.job])
        /\ GroupOf(ssnJobs[h]) \in groupquota.overQuotaGroups
        /\ \A id \in {h, ret.job} :
            ~MeetsLimit(Amount(ssnJobs[id], "cpu"), groupquota.quota["cpu"])
        /\ \A k \in DOMAIN ssnJobs \ {h} :
            ~IsBlockingJobAhead(config, ssnJobs[k], ssnJobs[ret.job])

----------------------------------------------------------------------------
(* What the open pass of time-priority leaves alone: exploration and properties *)

\* The tasks a job may have, by position
FrameTasks(id) == [1..MaxTasks -> {TaskInfo(id, p, PlainPod) : p \in TaskPriorities}]

\* api.JobInfo with its tasks
FrameJobs(id) ==
    {JobInfo(id, q, p, pend, created) @@ [Tasks |-> tasks] :
        q \in Queues, p \in Priorities, pend \in BOOLEAN, created \in {0, Minute},
        tasks \in FrameTasks(id)}

FrameArguments ==
    {[NoArguments EXCEPT !.preemptible = p, !.reclaimable = p] :
        p \in {NotGiven(NilSelector), Given(In(0))}}

InitFrame ==
    /\ \E args \in FrameArguments : config = ExPriorityParseArguments(args)
    /\ rules = TimePriorityParseArguments([rules |-> Given(RangeRules)])
    /\ ssnJobs \in Sessions(FrameJobs)
    /\ snapshot = ssnJobs
    /\ now = 2 * Minute
    /\ pc = "opening"
    /\ plugins = {TimePriority, ExPriority}
    /\ opened = {}
    /\ openOrder = <<>>
    /\ fns = {}
    /\ ret = NoReturn
    /\ openedAt = 0
    /\ closedSessions = <<>>
    /\ groupquota = GroupQuotaNew(NoQuotaArguments)

\* The tasks of the jobs of the session
SessionTasks == UNION {{ssnJobs[id].Tasks[a] : a \in 1..MaxTasks} : id \in DOMAIN ssnJobs}

NextFrame ==
    \/ TimePriorityOnSessionOpen
    \/ ExPriorityOnSessionOpen
    \/ \E t \in SessionTasks : \E l \in {<<>>} \cup {<<v>> : v \in SessionTasks} :
            CallPreemptable(t, l)
    \/ \E t \in SessionTasks : \E l \in {<<>>} \cup {<<v>> : v \in SessionTasks} :
            CallReclaimable(t, l)
    \/ HostTakeResult

SpecFrame == InitFrame /\ [][NextFrame]_vars

\* C40: the open pass of time-priority changes nothing of a job but its priority,
\* and nothing at all of a job for which no rule qualifies: tasks and their
\* priorities, queue, creation timestamp and phase stay as the host handed them
\* over; a candidate of the actor's own job that passes the gate is therefore a
\* victim exactly when its task priority, as handed over, is below the actor's.
C40_OpenPassChangesPriorityOnly ==
    /\ TimePriority \in opened =>
        \A id \in DOMAIN snapshot :
            /\ DOMAIN ssnJobs = DOMAIN snapshot
            /\ ssnJobs[id].Tasks = snapshot[id].Tasks
            /\ ssnJobs[id].Queue = snapshot[id].Queue
            /\ ssnJobs[id].CreationTimestamp = snapshot[id].CreationTimestamp
            /\ ssnJobs[id].Pending = snapshot[id].Pending
            /\ ssnJobs[id].UID = snapshot[id].UID
            /\ Qualifying(snapshot[id], openedAt) = {} => ssnJobs[id] = snapshot[id]
    /\ (VictimCall /\ TimePriority \in opened) =>
        \A v \in Elems(ret.candidates) :
            (v.Job = ret.actor.Job /\ PassesGate(GateOf(ret.fn), v)) =>
                /\ v \in {snapshot[v.Job].Tasks[a] : a \in 1..MaxTasks}
                /\ v \in Elems(ret.result.victims) <=> v.Priority < ret.actor.Priority

\* A task of an escalated job is preempted for a task of higher task priority of
\* the same job
C40_Witness ==
    /\ ret.fn = "preemptableFn"
    /\ TimePriority \in opened
    /\ ssnJobs[ret.actor.Job].Priority # snapshot[ret.actor.Job].Priority
    /\ \E v \in Elems(ret.result.victims) :
        /\ v.Job = ret.actor.Job
        /\ v.Priority < ret.actor.Priority

====
